---- MODULE Spec2Model ----
(***************************************************************************)
(* Cyber-Jianghu server: the broadcast hub, the Bilibili adapter's dedup   *)
(* filter, the image cache, the image generation handler and the story     *)
(* engine, each as a state machine translated from the Go source.          *)
(***************************************************************************)
EXTENDS Integers, Sequences, FiniteSets, Bags, TLC

(***************************************************************************)
(* Bounds of the model.                                                    *)
(***************************************************************************)
\* capacity of a Client.Send channel (256 in the handler; small here)
SendCap == 2
\* capacity of DanmakuHub.broadcast (1000 in NewDanmakuHub; small here)
BroadcastCap == 2
\* number of Broadcast calls in a run
MaxBroadcasts == 2

\* capacity of BilibiliAdapter.danmakuChan (1000 in NewBilibiliAdapter)
DanmakuChanCap == 1
\* time.Now().Unix() when the adapter is created
StartTime == 1000
\* number of times the clock advances in a run
MaxTicks == 2

\* ImageCache.maxEntries (200 in NewStoryHandlers; small here)
maxEntries == 2
\* number of cache operations in a run
MaxCacheOps == 4
\* number of engine calls in a run
MaxStoryCalls == 3
MaxCopyOps == 5
MaxDisconnects == 1

\* Capacity of the requests channel of the image queue (100 in NewImageQueue).
QueueCap == 2

\* Enqueue calls made in one behaviour.
MaxEnqueues == 4

\* Start and Stop calls made on the ComfyUI manager in one behaviour.
MaxStarts == 2
MaxStops == 2

\* Packets in one WebSocket message.
MaxPackets == 2

\* StoreMemory calls.
MaxStores == 4

\* the WebSocket clients that may connect, each once (generateClientID)
Clients == {"c1", "c2"}

VARIABLES
    \* ---- DanmakuHub and Client (web package) ----
    hubClients,     \* DanmakuHub.clients: the ids in the map
    hubRegister,    \* DanmakuHub.register channel
    hubUnregister,  \* DanmakuHub.unregister channel
    hubBroadcast,   \* DanmakuHub.broadcast channel
    clientSend,     \* Client.Send: buffered frames, per client
    sendClosed,     \* Client.Send has been closed, per client
    clientClosed,   \* Client.closed, per client
    connClosed,     \* Client.Conn has been closed, per client
    handlerPc,      \* position of GetDanmakuStream, per client
    writePc,        \* position of Client.writePump, per client
    readPc,         \* position of Client.readPump, per client
    written,        \* frames written to the client's socket, in order
    broadcastCalls, \* number of Broadcast calls made so far
    bufferFullLog,  \* the "Client send buffer full" log lines: <<client, msg>>
    \* ---- BilibiliAdapter (adapters package) ----
    now,            \* time.Now().Unix()
    ticks,          \* number of clock advances so far
    recentDanmaku,  \* BilibiliAdapter.recentDanmaku: content -> timestamp
    lastDedupTime,  \* BilibiliAdapter.lastDedupTime
    danmakuChan,    \* BilibiliAdapter.danmakuChan
    publishedAt,    \* per text, the timestamps of the danmaku sent on the channel
    lastParse,      \* the last parseDanmaku call: text, time, sent on the channel
    \* ---- ImageCache (generators package) ----
    cacheEntries,   \* ImageCache.entries: key -> CacheEntry
    cacheFiles,     \* the blob files of the cache directory: key -> bytes
    cacheStats,     \* ImageCache.stats
    cacheMu,        \* ImageCache.mu: "free" or "held"
    cacheClock,     \* time.Now()
    cacheOps,       \* number of cache operations started so far
    cacheLast,      \* the last cache operation: op, key, returned, result
    \* ---- StoryHandlers.GenerateImage (web package) ----
    genPc,          \* where each request's handler is
    genKey,         \* the request's cacheKey
    genResp,        \* the bytes (or the error) the request was answered with
    backendCalls,   \* comfyClient.GenerateImage calls made, per cacheKey
    genOverlap,     \* two requests with one cacheKey were in the handler at once
    \* ---- StoryEngine (engine package) and the MemoryStore it writes to ----
    storyState,     \* StoryEngine.state: storyID -> *StoryState (an object id)
    storyObjs,      \* the StoryState objects: object id -> fields
    callPc,         \* where each engine call is
    callArgs,       \* the call's operation, storyID and player action
    callSnap,       \* the copy GetStoryState gave the call
    callObj,        \* CreateStory's own pointer to the state it made
    callResult,     \* what the call returned: status and response
    callEffects,    \* what the call did outside the state: LLM call, memory stored
    memories,       \* the points StoreMemory has inserted (a bag)
    storyCalls      \* number of engine calls started so far

hubVars == <<hubClients, hubRegister, hubUnregister, hubBroadcast, clientSend,
             sendClosed, clientClosed, connClosed, handlerPc, writePc, readPc,
             written, broadcastCalls, bufferFullLog>>

adapterVars == <<now, ticks, recentDanmaku, lastDedupTime, danmakuChan, publishedAt,
                 lastParse>>

cacheVars == <<cacheEntries, cacheFiles, cacheStats, cacheMu, cacheClock,
               cacheOps, cacheLast>>

genVars == <<genPc, genKey, genResp, backendCalls, genOverlap>>

storyVars == <<storyState, storyObjs, callPc, callArgs, callSnap, callObj,
               callResult, callEffects, memories, storyCalls>>

VARIABLES
    liveState,      \* the StoryState e.state holds for a story: its Options
                    \* slice and its Custom map are references
    optArrays,      \* the backing arrays of Options slices: id -> options
    customMaps,     \* the Custom maps: id -> key -> value
    stateCopy,      \* the value GetStoryState returned to a caller earlier
    copyLast,       \* the last step made on the state or on the copy
    copyOps         \* steps made so far

copyVars == <<liveState, optArrays, customMaps, stateCopy, copyLast, copyOps>>

VARIABLES
    liveService,    \* Handlers.liveService: the LiveService object in use
    services,       \* the LiveService objects: id -> connected, adapter
    adapterObjs,    \* the BilibiliAdapter objects: id -> connection state,
                    \* output channel, goroutines
    connPc,         \* per connect request: where ConnectLive is
    connResult,     \* per connect request: the response
    disconnects     \* disconnect requests made so far

liveVars == <<liveService, services, adapterObjs, connPc, connResult, disconnects>>

VARIABLES
    requests,       \* ImageQueue.requests: the buffered channel of requests
    results,        \* ImageQueue.results: request ID -> result
    workerTask,     \* per worker: "idle", the request ID it holds, or "exited"
    resultsPushed,  \* results sent on a request's ResultCh, per request ID
    queueCtx,       \* the context Start was given: "live" or "done"
    queuePanicked,  \* a worker goroutine panicked: the process is gone
    enqueueLast,    \* the last Enqueue call: request ID and returned error
    enqueues        \* Enqueue calls made so far

queueVars == <<requests, results, workerTask, resultsPushed, queueCtx,
               queuePanicked, enqueueLast, enqueues>>

VARIABLES
    mgrStatus,      \* ComfyUIManager.status
    mgrProcess,     \* ComfyUIManager.process: 0 for nil, else the child's pid
    children,       \* the child processes spawned: pid -> "alive", "killed",
                    \* "exited" (on its own, not yet waited for) or "reaped"
    diedWhile,      \* pid -> the status the manager had when the child it
                    \* holds exited on its own ("none" if that did not happen)
    waiters,        \* pids a goroutine of Stop is still blocked in Wait on
    startupWaits,   \* the starts whose waitForStartup goroutine is still asleep
    mgrPanicked,    \* a goroutine of the manager panicked: the process is gone
    mgrLast,        \* the last Start or Stop call and what it returned
    mgrStarts,      \* Start calls made so far
    mgrStops        \* Stop calls made so far

mgrVars == <<mgrStatus, mgrProcess, children, diedWhile, waiters,
             startupWaits, mgrPanicked, mgrLast, mgrStarts, mgrStops>>

VARIABLES
    mainPc          \* where main is: "serving" (blocked on the quit channel),
                    \* "shutdown" (in server.Shutdown) or "exited"

mainVars == <<mainPc>>

VARIABLES
    frameData,      \* the data slice handleMessage was called with: its bytes
    frameCap,       \* cap(data): the bytes of the backing array
    frameOffset,    \* offset
    framePc,        \* "idle", "loop", "done" (handleMessage returned) or
                    \* "panicked" (a slice expression was out of range)
    frameBodies     \* the bodies handed to parseDanmaku: first and last index

frameVars == <<frameData, frameCap, frameOffset, framePc, frameBodies>>

VARIABLES
    \* ---- MemoryStore and the Qdrant collection it writes (rag package) ----
    qdrantPoints,   \* the "memories" collection: Qdrant point id -> point
    storedIDs,      \* the Memory.IDs for which StoreMemory returned nil
    storeLast,      \* the last StoreMemory call: the memory and the error
    storeOps        \* StoreMemory calls made so far

qdrantVars == <<qdrantPoints, storedIDs, storeLast, storeOps>>

vars == <<hubVars, adapterVars, cacheVars, genVars, storyVars,
         copyVars, liveVars, queueVars, mgrVars, mainVars,
         frameVars, qdrantVars>>

\* what the steps of one component leave alone
otherThanHub == <<adapterVars, cacheVars, genVars, storyVars,
                  copyVars, liveVars, queueVars, mgrVars,
                  mainVars, frameVars, qdrantVars>>
otherThanAdapter == <<cacheVars, genVars, storyVars, copyVars,
                      liveVars, queueVars, mgrVars, mainVars,
                      frameVars, qdrantVars>>
otherThanCache == <<hubVars, adapterVars, genVars, storyVars,
                    copyVars, liveVars, queueVars, mgrVars,
                    mainVars, frameVars, qdrantVars>>
otherThanGen == <<hubVars, adapterVars, storyVars, copyVars,
                  liveVars, queueVars, mgrVars, mainVars,
                  frameVars, qdrantVars>>
otherThanStory == <<hubVars, adapterVars, cacheVars, genVars,
                    copyVars, liveVars, queueVars, mgrVars,
                    mainVars, frameVars, qdrantVars>>
otherThanCopy == <<hubVars, adapterVars, cacheVars, genVars,
                   storyVars, liveVars, queueVars, mgrVars,
                   mainVars, frameVars, qdrantVars>>
otherThanLive == <<hubVars, adapterVars, cacheVars, genVars,
                   storyVars, copyVars, queueVars, mgrVars,
                   mainVars, frameVars, qdrantVars>>
otherThanQueue == <<hubVars, adapterVars, cacheVars, genVars,
                    storyVars, copyVars, liveVars, mgrVars,
                    mainVars, frameVars, qdrantVars>>
otherThanMgr == <<hubVars, adapterVars, cacheVars, genVars,
                  storyVars, copyVars, liveVars, queueVars,
                  mainVars, frameVars, qdrantVars>>
otherThanMain == <<hubVars, adapterVars, cacheVars, genVars,
                   storyVars, copyVars, liveVars, queueVars,
                   mgrVars, frameVars, qdrantVars>>
otherThanFrame == <<hubVars, adapterVars, cacheVars, genVars,
                    storyVars, copyVars, liveVars, queueVars,
                    mgrVars, mainVars, qdrantVars>>
otherThanQdrant == <<hubVars, adapterVars, cacheVars, genVars,
                     storyVars, copyVars, liveVars, queueVars,
                     mgrVars, mainVars, frameVars>>

(***************************************************************************)
(* Go channels: a buffered channel is a FIFO queue.                        *)
(***************************************************************************)
\* a send appended at the wrong end of the queue
ChanPushFront(q, x) == <<x>> \o q

\* ch <- x on a channel with room
ChanPush(q, x) == Append(q, x)

\* a send that ignores the channel's capacity
TrySendNoDrop(q, x, cap) == ChanPush(q, x)

\* select { case ch <- x: default: }: enqueue when there is room, else drop
TrySend(q, x, cap) == IF Len(q) < cap THEN ChanPush(q, x) ELSE q

\* json.Marshal of a danmaku broadcast frame
DanmakuFrame(m) == [type |-> "danmaku", data |-> m]

\* json.Marshal of the welcome message of a client
WelcomeFrame(c) == [type |-> "connected", data |-> 0]

(***************************************************************************)
(* Initial state: NewDanmakuHub, no client connected.                      *)
(***************************************************************************)
HubInit ==
    /\ hubClients = {}
    /\ hubRegister = <<>>
    /\ hubUnregister = <<>>
    /\ hubBroadcast = <<>>
    /\ clientSend = [c \in Clients |-> <<>>]
    /\ sendClosed = [c \in Clients |-> FALSE]
    /\ clientClosed = [c \in Clients |-> FALSE]
    /\ connClosed = [c \in Clients |-> FALSE]
    /\ handlerPc = [c \in Clients |-> "idle"]
    /\ writePc = [c \in Clients |-> "none"]
    /\ readPc = [c \in Clients |-> "none"]
    /\ written = [c \in Clients |-> <<>>]
    /\ broadcastCalls = 0
    /\ bufferFullLog = {}

(***************************************************************************)
(* Handlers.GetDanmakuStream: create the client, hand it to the hub, try   *)
(* to enqueue the welcome frame, start the read pump.                      *)
(***************************************************************************)
HandlerRegister(c) ==
    /\ handlerPc[c] = "idle"
    /\ hubRegister' = ChanPush(hubRegister, c)
    /\ handlerPc' = [handlerPc EXCEPT ![c] = "registered"]
    /\ UNCHANGED <<hubClients, hubUnregister, hubBroadcast, clientSend,
                   sendClosed, clientClosed, connClosed, writePc, readPc,
                   written, broadcastCalls, bufferFullLog>>

HandlerWelcome(c) ==
    /\ handlerPc[c] = "registered"
    /\ clientSend' = [clientSend EXCEPT
                        ![c] = TrySend(@, WelcomeFrame(c), SendCap)]
    /\ readPc' = [readPc EXCEPT ![c] = "running"]
    /\ handlerPc' = [handlerPc EXCEPT ![c] = "done"]
    /\ UNCHANGED <<hubClients, hubRegister, hubUnregister, hubBroadcast,
                   sendClosed, clientClosed, connClosed, writePc, written,
                   broadcastCalls, bufferFullLog>>

(***************************************************************************)
(* DanmakuHub.Run: one select over the three channels.                     *)
(***************************************************************************)
registerClient ==
    /\ hubRegister # <<>>
    /\ LET c == Head(hubRegister) IN
        /\ hubClients' = hubClients \cup {c}
        /\ writePc' = [writePc EXCEPT ![c] = "running"]
    /\ hubRegister' = Tail(hubRegister)
    /\ UNCHANGED <<hubUnregister, hubBroadcast, clientSend, sendClosed,
                   clientClosed, connClosed, handlerPc, readPc, written,
                   broadcastCalls, bufferFullLog>>

\* an unregister that closes the queue of whatever client it is handed
unregisterClientUnguarded ==
    /\ hubUnregister # <<>>
    /\ LET c == Head(hubUnregister) IN
        /\ hubClients' = hubClients \ {c}
        /\ sendClosed' = [sendClosed EXCEPT ![c] = TRUE]
    /\ hubUnregister' = Tail(hubUnregister)
    /\ UNCHANGED <<hubRegister, hubBroadcast, clientSend, clientClosed,
                   connClosed, handlerPc, writePc, readPc, written,
                   broadcastCalls, bufferFullLog>>

unregisterClient ==
    /\ hubUnregister # <<>>
    /\ LET c == Head(hubUnregister) IN
        IF c \in hubClients
        THEN /\ hubClients' = hubClients \ {c}
             /\ sendClosed' = [sendClosed EXCEPT ![c] = TRUE]
        ELSE UNCHANGED <<hubClients, sendClosed>>
    /\ hubUnregister' = Tail(hubUnregister)
    /\ UNCHANGED <<hubRegister, hubBroadcast, clientSend, clientClosed,
                   connClosed, handlerPc, writePc, readPc, written,
                   broadcastCalls, bufferFullLog>>

broadcastDanmaku ==
    /\ hubBroadcast # <<>>
    /\ LET data == DanmakuFrame(Head(hubBroadcast)) IN
        clientSend' = [c \in Clients |->
                         IF c \in hubClients
                         THEN TrySend(clientSend[c], data, SendCap)
                         ELSE clientSend[c]]
    /\ bufferFullLog' = bufferFullLog \cup
            {<<c, Head(hubBroadcast).seq>> : c \in
                {d \in hubClients : Len(clientSend[d]) >= SendCap}}
    /\ hubBroadcast' = Tail(hubBroadcast)
    /\ UNCHANGED <<hubClients, hubRegister, hubUnregister, sendClosed,
                   clientClosed, connClosed, handlerPc, writePc, readPc,
                   written, broadcastCalls>>

\* The count of dropped frames the hub holds.  DanmakuHub has no field for
\* it and the default branch of broadcastDanmaku only writes a log line, so
\* whatever is read as the hub's dropped count is what NewDanmakuHub left.
DroppedCounter == 0

(***************************************************************************)
(* DanmakuHub.Broadcast: non-blocking send into the hub's input channel.   *)
(* The calls are numbered in call order (seq).                             *)
(***************************************************************************)
BroadcastCall(d) ==
    /\ broadcastCalls' = broadcastCalls + 1
    /\ hubBroadcast' = TrySend(hubBroadcast,
                               [seq |-> broadcastCalls + 1, danmaku |-> d],
                               BroadcastCap)

\* a caller of Broadcast
Broadcast ==
    /\ broadcastCalls < MaxBroadcasts
    /\ BroadcastCall([content |-> <<"h", "i">>, timestamp |-> StartTime])
    /\ UNCHANGED <<hubClients, hubRegister, hubUnregister, clientSend,
                   sendClosed, clientClosed, connClosed, handlerPc, writePc,
                   readPc, written, bufferFullLog>>

(***************************************************************************)
(* Client.writePump: drain Send into the socket; ping on the ticker.       *)
(***************************************************************************)
\* case message, ok := <-c.Send with a frame buffered, and the write succeeds
WritePumpWrite(c) ==
    /\ writePc[c] = "running"
    /\ clientSend[c] # <<>>
    /\ ~connClosed[c]
    /\ written' = [written EXCEPT ![c] = Append(@, Head(clientSend[c]))]
    /\ clientSend' = [clientSend EXCEPT ![c] = Tail(@)]
    /\ UNCHANGED <<hubClients, hubRegister, hubUnregister, hubBroadcast,
                   sendClosed, clientClosed, connClosed, handlerPc, writePc,
                   readPc, broadcastCalls, bufferFullLog>>

\* the same receive, and WriteMessage returns an error: the pump returns
WritePumpWriteError(c) ==
    /\ writePc[c] = "running"
    /\ clientSend[c] # <<>>
    /\ clientSend' = [clientSend EXCEPT ![c] = Tail(@)]
    /\ clientClosed' = [clientClosed EXCEPT ![c] = TRUE]
    /\ connClosed' = [connClosed EXCEPT ![c] = TRUE]
    /\ writePc' = [writePc EXCEPT ![c] = "exited"]
    /\ UNCHANGED <<hubClients, hubRegister, hubUnregister, hubBroadcast,
                   sendClosed, handlerPc, readPc, written, broadcastCalls, bufferFullLog>>

\* the receive reports the channel closed and drained: close frame, return
WritePumpChanClosed(c) ==
    /\ writePc[c] = "running"
    /\ clientSend[c] = <<>>
    /\ sendClosed[c]
    /\ clientClosed' = [clientClosed EXCEPT ![c] = TRUE]
    /\ connClosed' = [connClosed EXCEPT ![c] = TRUE]
    /\ writePc' = [writePc EXCEPT ![c] = "exited"]
    /\ UNCHANGED <<hubClients, hubRegister, hubUnregister, hubBroadcast,
                   clientSend, sendClosed, handlerPc, readPc, written,
                   broadcastCalls, bufferFullLog>>

\* case <-ticker.C: return when closed or when the ping cannot be written
WritePumpPingExit(c) ==
    /\ writePc[c] = "running"
    /\ clientClosed' = [clientClosed EXCEPT ![c] = TRUE]
    /\ connClosed' = [connClosed EXCEPT ![c] = TRUE]
    /\ writePc' = [writePc EXCEPT ![c] = "exited"]
    /\ UNCHANGED <<hubClients, hubRegister, hubUnregister, hubBroadcast,
                   clientSend, sendClosed, handlerPc, readPc, written,
                   broadcastCalls, bufferFullLog>>

(***************************************************************************)
(* Client.readPump: on a read error, the deferred function queues the      *)
(* client for unregistration and closes the connection.                    *)
(***************************************************************************)
ReadPumpExit(c) ==
    /\ readPc[c] = "running"
    /\ hubUnregister' = ChanPush(hubUnregister, c)
    /\ clientClosed' = [clientClosed EXCEPT ![c] = TRUE]
    /\ connClosed' = [connClosed EXCEPT ![c] = TRUE]
    /\ readPc' = [readPc EXCEPT ![c] = "exited"]
    /\ UNCHANGED <<hubClients, hubRegister, hubBroadcast, clientSend,
                   sendClosed, handlerPc, writePc, written, broadcastCalls, bufferFullLog>>

HubNext ==
    \/ (\E c \in Clients : HandlerRegister(c)) /\ UNCHANGED otherThanHub
    \/ (\E c \in Clients : HandlerWelcome(c)) /\ UNCHANGED otherThanHub
    \/ (registerClient) /\ UNCHANGED otherThanHub
    \/ (unregisterClient) /\ UNCHANGED otherThanHub
    \/ (broadcastDanmaku) /\ UNCHANGED otherThanHub
    \/ (Broadcast) /\ UNCHANGED otherThanHub
    \/ (\E c \in Clients : WritePumpWrite(c)) /\ UNCHANGED otherThanHub
    \/ (\E c \in Clients : WritePumpWriteError(c)) /\ UNCHANGED otherThanHub
    \/ (\E c \in Clients : WritePumpChanClosed(c)) /\ UNCHANGED otherThanHub
    \/ (\E c \in Clients : WritePumpPingExit(c)) /\ UNCHANGED otherThanHub
    \/ (\E c \in Clients : ReadPumpExit(c)) /\ UNCHANGED otherThanHub

(***************************************************************************)
(* BilibiliAdapter: deduplication and filtering of extracted chat texts.   *)
(***************************************************************************)
\* the chat texts that arrive, as strings of characters
Texts == {<<"h", "i">>, <<"y", "o">>}

\* the clock advances between messages by one of these numbers of seconds
TickSteps == {30, 31, 301}

\* BilibiliAdapter.dedupWindow, set by NewBilibiliAdapter
dedupWindow == 60

\* the cleanup cadence of shouldSendDanmaku, in seconds
cleanupInterval == 300

\* BilibiliAdapter.filterKeywords: empty in NewBilibiliAdapter, never set
filterKeywords == {}

\* findSubstring(s, substr) >= 0
findSubstring(str, substr) ==
    \E i \in 0..(Len(str) - Len(substr)) :
        SubSeq(str, i + 1, i + Len(substr)) = substr

contains(str, substr) == Len(str) >= Len(substr) /\ findSubstring(str, substr)

\* cleanupOldDanmaku: the map without the entries older than the window
cleanupOldDanmaku(m, t) ==
    [x \in {y \in DOMAIN m : ~(t - m[y] > dedupWindow)} |-> m[x]]

\* the map as shouldSendDanmaku leaves it: cleaned every cleanupInterval
AfterCleanup(m, t) ==
    IF t - lastDedupTime > cleanupInterval THEN cleanupOldDanmaku(m, t) ELSE m

\* the duplicate check of shouldSendDanmaku
IsDuplicate(m, text, t) ==
    text \in DOMAIN m /\ t - m[text] < dedupWindow

\* shouldSendDanmaku's result on the cleaned map
shouldSendDanmaku(m, text, t) ==
    /\ ~IsDuplicate(m, text, t)
    /\ ~\E k \in filterKeywords : contains(text, k)

AdapterInit ==
    /\ now = StartTime
    /\ ticks = 0
    /\ recentDanmaku = <<>>
    /\ lastDedupTime = 0
    /\ danmakuChan = <<>>
    /\ publishedAt = [x \in Texts |-> {}]
    /\ lastParse = [text |-> <<>>, t |-> 0, sent |-> FALSE]

\* the clock moves on
Tick ==
    /\ ticks < MaxTicks
    /\ ticks' = ticks + 1
    /\ \E d \in TickSteps : now' = now + d
    /\ UNCHANGED <<recentDanmaku, lastDedupTime, danmakuChan, publishedAt,
                   lastParse>>
    /\ UNCHANGED <<hubVars, otherThanAdapter>>

\* parseDanmaku on a DANMU_MSG packet whose text is not empty
parseDanmaku(text) ==
    LET cleaned == AfterCleanup(recentDanmaku, now)
        send == shouldSendDanmaku(cleaned, text, now)
        danmaku == [content |-> text, timestamp |-> now]
        room == Len(danmakuChan) < DanmakuChanCap
    IN  /\ lastDedupTime' = IF now - lastDedupTime > cleanupInterval
                            THEN now ELSE lastDedupTime
        /\ recentDanmaku' =
              IF send
              THEN [x \in DOMAIN cleaned \cup {text} |->
                        IF x = text THEN now ELSE cleaned[x]]
              ELSE cleaned
        /\ danmakuChan' = IF send
                          THEN TrySend(danmakuChan, danmaku, DanmakuChanCap)
                          ELSE danmakuChan
        /\ publishedAt' = IF send /\ room
                          THEN [publishedAt EXCEPT ![text] = @ \cup {now}]
                          ELSE publishedAt
        /\ lastParse' = [text |-> text, t |-> now, sent |-> send /\ room]
        /\ UNCHANGED <<now, ticks>>
        /\ UNCHANGED <<hubVars, otherThanAdapter>>

\* LiveService.forwardDanmaku: take one danmaku from the adapter's channel
\* and hand it to the hub
forwardDanmaku ==
    /\ danmakuChan # <<>>
    /\ danmakuChan' = Tail(danmakuChan)
    /\ BroadcastCall(Head(danmakuChan))
    /\ UNCHANGED <<now, ticks, recentDanmaku, lastDedupTime, publishedAt,
                   lastParse>>
    /\ UNCHANGED <<hubClients, hubRegister, hubUnregister, clientSend,
                   sendClosed, clientClosed, connClosed, handlerPc, writePc,
                   readPc, written, bufferFullLog>>
    /\ UNCHANGED otherThanAdapter

AdapterNext ==
    \/ Tick
    \/ \E text \in Texts : parseDanmaku(text)
    \/ forwardDanmaku
    \/ broadcastDanmaku /\ UNCHANGED otherThanHub

(***************************************************************************)
(* ImageCache: entries keyed by fingerprint, LRU eviction, TTL.            *)
(***************************************************************************)
\* the fingerprints (GenerateCacheKey results) and the image blobs in use
CacheKeys == {"k1", "k2", "k3"}
Blobs == {"b1", "b2"}

\* ImageCache.ttl (24 hours), in clock units; one operation takes one unit
cacheTTL == 10

NoResult == "none"

\* sync.RWMutex.Lock returns only when nobody holds the mutex
CanLock(mu) == mu = "free"

\* time.Since(entry.CreatedAt) > c.ttl
Expired(e, t) == cacheTTL > 0 /\ t - e.createdAt > cacheTTL

\* the keys evictOldest may pick: an entry no other entry was accessed before
OldestKeys(entries) ==
    {k \in DOMAIN entries :
        \A j \in DOMAIN entries : ~(entries[j].lastAccessed < entries[k].lastAccessed)}

\* a map without one key (delete)
Without(f, k) == [x \in DOMAIN f \ {k} |-> f[x]]

\* a map with one key set
With(f, k, v) == [x \in DOMAIN f \cup {k} |-> IF x = k THEN v ELSE f[x]]

CacheInit ==
    /\ cacheEntries = <<>>
    /\ cacheFiles = <<>>
    /\ cacheStats = [hits |-> 0, misses |-> 0, totalEntries |-> 0]
    /\ cacheMu = "free"
    /\ cacheClock = 0
    /\ cacheOps = 0
    /\ cacheLast = [op |-> "none", key |-> "none", returned |-> TRUE,
                    result |-> NoResult, evicted |-> {}, full |-> FALSE]

\* every operation takes the clock one unit further and counts as one
CacheOpBegins ==
    /\ cacheOps < MaxCacheOps
    /\ cacheOps' = cacheOps + 1
    /\ cacheClock' = cacheClock + 1

\* more than the TTL passes without any cache operation
CacheLongWait ==
    /\ cacheOps < MaxCacheOps
    /\ cacheOps' = cacheOps + 1
    /\ cacheClock' = cacheClock + cacheTTL + 1
    /\ UNCHANGED <<cacheEntries, cacheFiles, cacheStats, cacheMu, cacheLast>>

\* an insert that leaves an entry already held as it is
InsertEntryIfAbsent(entries, key, entry) ==
    IF key \in DOMAIN entries THEN entries ELSE With(entries, key, entry)

\* c.entries[key] = entry
InsertEntry(entries, key, entry) == With(entries, key, entry)

\* how the two file writes of Put end: both written, the image file not
\* written, or the image file written and the .meta file not
PutOutcomes == {"ok", "imageFails", "metaFails"}

\* a Put that failed before or after its image write
PutFails(key, data, outcome) ==
    /\ outcome # "ok"
    /\ cacheFiles' = IF outcome = "metaFails"
                     THEN With(cacheFiles, key, data) ELSE cacheFiles
    /\ cacheMu' = "free"
    /\ cacheLast' = [op |-> "put", key |-> key, returned |-> TRUE,
                     result |-> "error", evicted |-> {}, full |-> FALSE]
    /\ UNCHANGED <<cacheEntries, cacheStats>>

\* ImageCache.Put. It returns the error of either file write, the entry not
\* inserted.  With the entry inserted and len(entries) > maxEntries it
\* calls evictOldest, which calls Invalidate, which locks c.mu again while
\* Put still holds it.
Put(key, data, outcome) ==
    /\ CanLock(cacheMu)
    /\ CacheOpBegins
    /\ IF outcome # "ok" THEN PutFails(key, data, outcome) ELSE
       LET t == cacheClock'
           entry == [data |-> data, createdAt |-> t, lastAccessed |-> t]
           inserted == InsertEntry(cacheEntries, key, entry)
           files == With(cacheFiles, key, data)
           stats == [cacheStats EXCEPT !.totalEntries = @ + 1]
           full == Cardinality(DOMAIN cacheEntries) >= maxEntries
                   /\ key \notin DOMAIN cacheEntries
       IN  IF Cardinality(DOMAIN inserted) > maxEntries
           THEN IF CanLock("held")
                THEN \* Invalidate(oldestKey) runs and Put returns
                     \E old \in OldestKeys(inserted) :
                        /\ cacheEntries' = Without(inserted, old)
                        /\ cacheFiles' = Without(files, old)
                        /\ cacheStats' = [stats EXCEPT !.totalEntries = @ - 1]
                        /\ cacheMu' = "free"
                        /\ cacheLast' = [op |-> "put", key |-> key,
                                         returned |-> TRUE, result |-> "ok",
                                         evicted |-> {old}, full |-> full]
                ELSE \* Invalidate waits for c.mu for ever; Put never returns
                     /\ cacheEntries' = inserted
                     /\ cacheFiles' = files
                     /\ cacheStats' = stats
                     /\ cacheMu' = "held"
                     /\ cacheLast' = [op |-> "put", key |-> key,
                                      returned |-> FALSE, result |-> NoResult,
                                      evicted |-> {}, full |-> full]
           ELSE /\ cacheEntries' = inserted
                /\ cacheFiles' = files
                /\ cacheStats' = stats
                /\ cacheMu' = "free"
                /\ cacheLast' = [op |-> "put", key |-> key, returned |-> TRUE,
                                 result |-> "ok", evicted |-> {}, full |-> full]

\* ImageCache.Get
Get(key) ==
    /\ CanLock(cacheMu)
    /\ CacheOpBegins
    /\ LET t == cacheClock' IN
        IF key \notin DOMAIN cacheEntries
        THEN /\ cacheStats' = [cacheStats EXCEPT !.misses = @ + 1]
             /\ cacheLast' = [op |-> "get", key |-> key, returned |-> TRUE,
                              result |-> "miss", evicted |-> {}, full |-> FALSE]
             /\ UNCHANGED <<cacheEntries, cacheFiles>>
        ELSE IF Expired(cacheEntries[key], t)
        THEN /\ cacheEntries' = Without(cacheEntries, key)
             /\ cacheFiles' = Without(cacheFiles, key)
             /\ cacheStats' = [cacheStats EXCEPT !.misses = @ + 1]
             /\ cacheLast' = [op |-> "get", key |-> key, returned |-> TRUE,
                              result |-> "expired", evicted |-> {}, full |-> FALSE]
        ELSE /\ cacheEntries' = [cacheEntries EXCEPT ![key].lastAccessed = t]
             /\ cacheStats' = [cacheStats EXCEPT !.hits = @ + 1]
             /\ cacheLast' = [op |-> "get", key |-> key, returned |-> TRUE,
                              result |-> cacheFiles[key], evicted |-> {},
                              full |-> FALSE]
             /\ UNCHANGED cacheFiles
    /\ cacheMu' = "free"

\* ImageCache.Invalidate, called from outside the cache
Invalidate(key) ==
    /\ CanLock(cacheMu)
    /\ CacheOpBegins
    /\ IF key \in DOMAIN cacheEntries
       THEN /\ cacheEntries' = Without(cacheEntries, key)
            /\ cacheFiles' = Without(cacheFiles, key)
            /\ cacheStats' = [cacheStats EXCEPT !.totalEntries = @ - 1]
       ELSE UNCHANGED <<cacheEntries, cacheFiles, cacheStats>>
    /\ cacheLast' = [op |-> "invalidate", key |-> key, returned |-> TRUE,
                     result |-> "ok", evicted |-> {}, full |-> FALSE]
    /\ cacheMu' = "free"

\* ImageCache.Clear
Clear ==
    /\ CanLock(cacheMu)
    /\ CacheOpBegins
    /\ cacheEntries' = <<>>
    /\ cacheFiles' = <<>>
    /\ cacheStats' = [hits |-> 0, misses |-> 0, totalEntries |-> 0]
    /\ cacheLast' = [op |-> "clear", key |-> "none", returned |-> TRUE,
                     result |-> "ok", evicted |-> {}, full |-> FALSE]
    /\ cacheMu' = "free"

\* ImageCache.CleanExpired
CleanExpired ==
    /\ CanLock(cacheMu)
    /\ CacheOpBegins
    /\ LET t == cacheClock'
           dead == {k \in DOMAIN cacheEntries : Expired(cacheEntries[k], t)}
       IN  /\ cacheEntries' = [k \in DOMAIN cacheEntries \ dead |-> cacheEntries[k]]
           /\ cacheFiles' = [k \in DOMAIN cacheFiles \ dead |-> cacheFiles[k]]
           /\ cacheStats' = [cacheStats EXCEPT
                                !.totalEntries = @ - Cardinality(dead)]
           /\ cacheLast' = [op |-> "clean", key |-> "none", returned |-> TRUE,
                            result |-> "ok", evicted |-> dead, full |-> FALSE]
    /\ cacheMu' = "free"

CacheNext ==
    \/ (\E k \in CacheKeys, b \in Blobs, o \in PutOutcomes : Put(k, b, o))
            /\ UNCHANGED otherThanCache
    \/ (\E k \in CacheKeys : Get(k)) /\ UNCHANGED otherThanCache
    \/ (\E k \in CacheKeys : Invalidate(k)) /\ UNCHANGED otherThanCache
    \/ (Clear) /\ UNCHANGED otherThanCache
    \/ (CleanExpired) /\ UNCHANGED otherThanCache
    \/ (CacheLongWait) /\ UNCHANGED otherThanCache

(***************************************************************************)
(* StoryHandlers.GenerateImage: cache lookup, back-end call on a miss,     *)
(* asynchronous store of the result.                                       *)
(***************************************************************************)
\* the HTTP requests in a run
Requests == {"r1", "r2"}

\* the requests whose handler is waiting for comfyClient.GenerateImage
InFlight(key) == {r \in Requests : genPc[r] = "generating" /\ genKey[r] = key}

GenInit ==
    /\ genPc = [r \in Requests |-> "idle"]
    /\ genKey = [r \in Requests |-> "none"]
    /\ genResp = [r \in Requests |-> NoResult]
    /\ backendCalls = [k \in CacheKeys |-> 0]
    /\ genOverlap = FALSE

\* the handler up to the call of comfyClient.GenerateImage: h.imageCache.Get,
\* answer on a hit, start the generation on a miss
GenerateImageLookup(r) ==
    /\ genPc[r] = "idle"
    /\ \E key \in CacheKeys :
        /\ Get(key)
        /\ genKey' = [genKey EXCEPT ![r] = key]
        /\ IF cacheLast'.result \in Blobs
           THEN /\ genPc' = [genPc EXCEPT ![r] = "done"]
                /\ genResp' = [genResp EXCEPT ![r] = cacheLast'.result]
                /\ UNCHANGED <<backendCalls, genOverlap>>
           ELSE /\ genPc' = [genPc EXCEPT ![r] = "generating"]
                /\ backendCalls' = [backendCalls EXCEPT ![key] = @ + 1]
                /\ genOverlap' = (genOverlap \/ InFlight(key) # {})
                /\ UNCHANGED genResp

\* comfyClient.GenerateImage returns an image; the handler starts the
\* goroutine that stores it and answers the request
GenerateImageResult(r) ==
    /\ genPc[r] = "generating"
    /\ \E b \in Blobs : genResp' = [genResp EXCEPT ![r] = b]
    /\ genPc' = [genPc EXCEPT ![r] = "storing"]
    /\ UNCHANGED <<genKey, backendCalls, genOverlap>>
    /\ UNCHANGED cacheVars

\* comfyClient.GenerateImage returns an error: 500, nothing stored
GenerateImageError(r) ==
    /\ genPc[r] = "generating"
    /\ genResp' = [genResp EXCEPT ![r] = "error"]
    /\ genPc' = [genPc EXCEPT ![r] = "done"]
    /\ UNCHANGED <<genKey, backendCalls, genOverlap>>
    /\ UNCHANGED cacheVars

\* go func() { h.imageCache.Put(...) }()
GenerateImageStore(r) ==
    /\ genPc[r] = "storing"
    /\ \E o \in PutOutcomes : Put(genKey[r], genResp[r], o)
    /\ genPc' = [genPc EXCEPT ![r] = IF cacheLast'.returned THEN "done" ELSE "blocked"]
    /\ UNCHANGED <<genKey, genResp, backendCalls, genOverlap>>

GenNext ==
    \/ (\E r \in Requests : GenerateImageLookup(r)) /\ UNCHANGED otherThanGen
    \/ (\E r \in Requests : GenerateImageResult(r)) /\ UNCHANGED otherThanGen
    \/ (\E r \in Requests : GenerateImageError(r)) /\ UNCHANGED otherThanGen
    \/ (\E r \in Requests : GenerateImageStore(r)) /\ UNCHANGED otherThanGen

(***************************************************************************)
(* StoryEngine: the state map, CreateStory, GenerateStorySegment,          *)
(* ApplyOption, EndStory, and the memories they persist.  A call is split  *)
(* where it waits for the network (LLM, memory store) or takes e.mu.       *)
(***************************************************************************)
\* the goroutines serving engine calls, the story ids and the player inputs
Callers == {"g1", "g2"}
StoryIDs == {"s1"}
PlayerActions == {<<>>, <<"g", "o">>}
ChoiceTexts == {<<"g", "o">>}

\* what glm5Client.Chat can give: an error, a response without choices, or
\* a text, without or with enumerated markers
LLMTexts == {<<"o", "k">>, <<"1", ".", "a", "2", ".", "b", "3", ".", "c">>}

\* the option prefixes probed, family by family ("yi,", "er,", "san," stand
\* for the Chinese numerals of the third family)
optionPatterns ==
    << << <<"1", ".">>, <<"2", ".">>, <<"3", ".">> >>,
       << <<"A", ".">>, <<"B", ".">>, <<"C", ".">> >>,
       << <<"yi", ",">>, <<"er", ",">>, <<"san", ",">> >> >>

\* jixu qianjin / guancha zhouwei / xunwen NPC
DefaultOptions ==
    << [id |-> "1", text |-> "continue"],
       [id |-> "2", text |-> "observe"],
       [id |-> "3", text |-> "ask NPC"] >>

containsSubstring(str, substr) ==
    Len(str) >= Len(substr) /\ findSubstring(str, substr)

\* extractOptionText: the text after the prefix
extractOptionText(text, prefix) == <<>>

OptionID(i) == IF i = 1 THEN "1" ELSE IF i = 2 THEN "2" ELSE "3"

\* the inner loop over one family: how many patterns it visits before the
\* break, and the options it appends
PatternsVisited(text, patterns) ==
    IF \A i \in 1..Len(patterns) : containsSubstring(text, patterns[i])
    THEN Len(patterns)
    ELSE (CHOOSE i \in 1..Len(patterns) :
            /\ ~containsSubstring(text, patterns[i])
            /\ \A j \in 1..(i - 1) : containsSubstring(text, patterns[j])) - 1

RECURSIVE FamilyOptions(_, _, _, _)
FamilyOptions(text, patterns, i, n) ==
    IF i > n THEN <<>>
    ELSE (IF extractOptionText(text, patterns[i]) # <<>>
          THEN << [id |-> OptionID(i),
                   text |-> patterns[i] \o extractOptionText(text, patterns[i])] >>
          ELSE <<>>) \o FamilyOptions(text, patterns, i + 1, n)

\* the outer loop: families in order, stopping after a family found whole
\* once at least two options are collected
RECURSIVE ParsedOptions(_, _, _)
ParsedOptions(text, f, options) ==
    IF f > Len(optionPatterns) THEN options
    ELSE LET patterns == optionPatterns[f]
             n == PatternsVisited(text, patterns)
             more == options \o FamilyOptions(text, patterns, 1, n)
         IN  IF n = Len(patterns) /\ Len(more) >= 2
             THEN more
             ELSE ParsedOptions(text, f + 1, more)

\* parseOptionsFromResponse without the defaults
parseOptionsNoDefault(text) == ParsedOptions(text, 1, <<>>)

parseOptionsFromResponse(text) ==
    IF Len(ParsedOptions(text, 1, <<>>)) = 0
    THEN DefaultOptions
    ELSE ParsedOptions(text, 1, <<>>)

NoCall == [op |-> "none", storyID |-> "none", action |-> <<>>]
NoSnap == [found |-> FALSE]
NoReturn == [status |-> "none"]
NoEffects == [llm |-> FALSE, stored |-> FALSE, storeFailed |-> FALSE,
              relatedFailed |-> FALSE, decisionsFailed |-> FALSE]

\* the memory types SearchRelatedMemories is asked for
RelatedTypes == {"player_action", "decision", "npc"}

\* what SearchRelatedMemories can return when it succeeds: stored points of
\* the types asked for that score above the threshold
RelatedFound == SUBSET {m \in BagToSet(memories) : m.type \in RelatedTypes}

\* relatedMemories as GenerateStorySegment uses it: empty after an error
RelatedOrEmpty(ok, found) == IF ok THEN found ELSE {}

StoryInit ==
    /\ storyState = <<>>
    /\ storyObjs = <<>>
    /\ callPc = [c \in Callers |-> "idle"]
    /\ callArgs = [c \in Callers |-> NoCall]
    /\ callSnap = [c \in Callers |-> NoSnap]
    /\ callObj = [c \in Callers |-> 0]
    /\ callResult = [c \in Callers |-> NoReturn]
    /\ callEffects = [c \in Callers |-> NoEffects]
    /\ memories = EmptyBag
    /\ storyCalls = 0

\* a caller that has no call running starts one
CallBegins(c) ==
    /\ callPc[c] \in {"idle", "done"}
    /\ storyCalls < MaxStoryCalls
    /\ storyCalls' = storyCalls + 1

\* a per-caller record after a step of caller c: c gets v; when c returns,
\* what the callers that returned before still showed is forgotten, so that
\* only the call that returned last shows its arguments and its result
Keep(f, c, v, returns, blank) ==
    [d \in Callers |-> IF d = c THEN v
                       ELSE IF returns /\ callPc[d] = "done" THEN blank
                       ELSE f[d]]

CallStep(c, returns, pc, args, snap, obj, result, effects) ==
    /\ callPc' = Keep(callPc, c, pc, returns, "idle")
    /\ callArgs' = Keep(callArgs, c, args, returns, NoCall)
    /\ callSnap' = [callSnap EXCEPT ![c] = snap]
    /\ callObj' = [callObj EXCEPT ![c] = obj]
    /\ callResult' = Keep(callResult, c, result, returns, NoReturn)
    /\ callEffects' = Keep(callEffects, c, effects, returns, NoEffects)

\* the call goes on to its next position
Moves(c, pc, args, snap, obj, result, effects) ==
    CallStep(c, FALSE, pc, args, snap, obj, result, effects)

\* the call returns: its copy of the state and its pointer are gone
Returned(c, args, result, effects) ==
    CallStep(c, TRUE, "done", args, NoSnap, 0, result, effects)

\* GetStoryState: NotFound, or a copy of the state the map holds for the id
GetStoryState(id) ==
    IF id \in DOMAIN storyState
    THEN [found |-> TRUE, state |-> storyObjs[storyState[id]]]
    ELSE [found |-> FALSE]

\* GetActiveStories: the ids the map holds
GetActiveStories == {id \in StoryIDs : id \in DOMAIN storyState}

\* GetStoryState as GenerateStorySegment and EndStory use it: NotFound, or a
\* copy of the state and the next position
LookupStep(c, args, obj, effects, next) ==
    IF args.storyID \in DOMAIN storyState
    THEN Moves(c, next, args,
               [found |-> TRUE, obj |-> storyState[args.storyID],
                state |-> storyObjs[storyState[args.storyID]]],
               obj, NoReturn, effects)
    ELSE Returned(c, args, [status |-> "NotFound"], effects)

\* StoreMemory: the point is inserted unless the embedding or the insert fails
StoreMemory(mem, ok) ==
    memories' = IF ok THEN memories (+) SetToBag({mem}) ELSE memories

\* the state map after the update at the end of GenerateStorySegment: the
\* state the map holds for the id, if any, gets the text and its options
WriteSegment(objs, id, text) ==
    IF id \in DOMAIN storyState
    THEN [objs EXCEPT ![storyState[id]] =
            [previousText |-> text, options |-> parseOptionsFromResponse(text)]]
    ELSE objs

\* a failed LLM call that overwrites the state all the same
StateAfterFailureWritten(objs, id) == WriteSegment(objs, id, <<>>)

\* the states after a failed LLM call: GenerateStorySegment has returned
\* before its update
StateAfterFailure(objs, id) == objs

\* a store error that fails the call
StatusAfterStoreStrict(ok) == IF ok THEN "ok" ELSE "StoreFailure"

\* the error of StoreMemory is dropped: the call returns its response
StatusAfterStore(ok) == "ok"

\* the memory store and the embedding service as the engine meets them:
\* which stores and which searches may succeed (TRUE) or fail (FALSE)
Reliable == [stores |-> {TRUE}, searches |-> {TRUE}]
Unreliable == [stores |-> BOOLEAN, searches |-> BOOLEAN]

\* the outcomes of SearchRelatedMemories: an error, or a list found
RelatedOutcomes(env) ==
    {[ok |-> FALSE, found |-> {}] : b \in env.searches \ {TRUE}}
    \cup {[ok |-> TRUE, found |-> f] : f \in {g \in RelatedFound : TRUE \in env.searches}}

\* CreateStory up to its call of GenerateStorySegment: a fresh state is put
\* into the map under the id, whatever the map held
CreateStory(c, id) ==
    /\ CallBegins(c)
    /\ LET o == Cardinality(DOMAIN storyObjs) + 1 IN
        /\ storyObjs' = With(storyObjs, o, [previousText |-> <<>>, options |-> <<>>])
        /\ storyState' = With(storyState, id, o)
        /\ Moves(c, "lookup", [op |-> "create", storyID |-> id, action |-> <<>>],
                 NoSnap, o, NoReturn, NoEffects)
    /\ UNCHANGED memories

\* GenerateStorySegment called directly (advance), up to the LLM call
GenerateStorySegment(c, id, action) ==
    /\ CallBegins(c)
    /\ LookupStep(c, [op |-> "advance", storyID |-> id, action |-> action],
                  0, NoEffects, "llm")
    /\ UNCHANGED <<storyState, storyObjs, memories>>

\* ApplyOption up to its call of GenerateStorySegment: StoreDecision
ApplyOption(c, id, choiceText, env) ==
    /\ CallBegins(c)
    /\ \E ok \in env.stores :
        /\ StoreMemory([type |-> "decision", storyID |-> id, content |-> choiceText], ok)
        /\ Moves(c, "lookup", [op |-> "choose", storyID |-> id, action |-> choiceText],
                 NoSnap, 0, NoReturn,
                 [NoEffects EXCEPT !.stored = ok, !.storeFailed = ~ok])
    /\ UNCHANGED <<storyState, storyObjs>>

\* the GetStoryState at the head of GenerateStorySegment, in a create or choose
SegmentLookup(c) ==
    /\ callPc[c] = "lookup"
    /\ LookupStep(c, callArgs[c], callObj[c], callEffects[c], "llm")
    /\ UNCHANGED <<storyState, storyObjs, memories, storyCalls>>

\* glm5Client.Chat fails, or returns no choice
LLMFails(c) ==
    /\ callPc[c] = "llm"
    /\ \E out \in {"error", "nochoices"} :
        Returned(c, callArgs[c], [status |-> "LLMFailure", why |-> out],
                 [callEffects[c] EXCEPT !.llm = TRUE])
    /\ storyObjs' = StateAfterFailure(storyObjs, callArgs[c].storyID)
    /\ UNCHANGED <<storyState, memories, storyCalls>>

\* an update that stores the state under the id, in the map or not
StatesAfterSegmentPut(states, id, obj) == With(states, id, obj)

\* the state map after the update at the end of GenerateStorySegment: the
\* update writes into the state the map holds and assigns no map entry
StatesAfterSegment(states, id, obj) == states

\* glm5Client.Chat returns a text: options parsed, state updated under e.mu.
\* In a create, CreateStory then writes the response into its own state
\* object and starts the goroutine storing the initial memory (nothing reads
\* the memories, so the goroutine's store is taken with this step);
\* otherwise a non-empty player action is stored next.  The two memory
\* searches made before the Chat call only read the memory store; they are
\* taken with this step: what SearchRelatedMemories found goes into the
\* response (CreateStory drops it), what SearchRecentDecisions found only
\* into the prompt, and an error of either is replaced by an empty list.
LLMReturns(c, env) ==
    /\ callPc[c] = "llm"
    /\ \E text \in LLMTexts :
        LET id == callArgs[c].storyID
            options == parseOptionsFromResponse(text)
            updated == WriteSegment(storyObjs, id, text)
        IN  IF callArgs[c].op = "create"
            THEN /\ storyObjs' = [updated EXCEPT ![callObj[c]] =
                                    [previousText |-> text, options |-> options]]
                 /\ \E ok \in env.stores :
                    /\ StoreMemory([type |-> "story_state", storyID |-> id,
                                    content |-> <<>>], ok)
                    /\ Returned(c, callArgs[c],
                            [status |-> "ok", text |-> text, options |-> options,
                             related |-> {}],
                            [callEffects[c] EXCEPT !.llm = TRUE, !.stored = ok,
                                                   !.storeFailed = ~ok])
            ELSE /\ storyObjs' = updated
                 /\ memories' = memories
                 /\ \E search \in RelatedOutcomes(env), decisionsOk \in env.searches :
                    LET resp == [status |-> "ok", text |-> text, options |-> options,
                                 related |-> RelatedOrEmpty(search.ok, search.found)]
                        eff == [callEffects[c] EXCEPT !.llm = TRUE,
                                                      !.relatedFailed = ~search.ok,
                                                      !.decisionsFailed = ~decisionsOk]
                    IN  IF callArgs[c].action # <<>>
                        THEN Moves(c, "store", callArgs[c], callSnap[c], callObj[c],
                                   resp, eff)
                        ELSE Returned(c, callArgs[c], resp, eff)
    /\ storyState' = StatesAfterSegment(storyState, callArgs[c].storyID,
                                        callSnap[c].obj)
    /\ UNCHANGED storyCalls

\* the player action memory stored at the end of GenerateStorySegment
StoreAction(c, env) ==
    /\ callPc[c] = "store"
    /\ \E ok \in env.stores :
        /\ StoreMemory([type |-> "player_action", storyID |-> callArgs[c].storyID,
                        content |-> callArgs[c].action], ok)
        /\ Returned(c, callArgs[c],
                    [callResult[c] EXCEPT !.status = StatusAfterStore(ok)],
                    [callEffects[c] EXCEPT !.stored = @ \/ ok,
                                           !.storeFailed = @ \/ ~ok])
    /\ UNCHANGED <<storyState, storyObjs, storyCalls>>

\* an end that leaves the id in the map
DeleteStoryKept(states, id) == states

\* delete(e.state, storyID)
DeleteStory(states, id) == Without(states, id)

\* EndStory up to its StoreMemory: GetStoryState
EndStory(c, id) ==
    /\ CallBegins(c)
    /\ LookupStep(c, [op |-> "end", storyID |-> id, action |-> <<>>],
                  0, NoEffects, "ending")
    /\ UNCHANGED <<storyState, storyObjs, memories>>

\* EndStory from its StoreMemory on: the final memory, then the delete
EndStoryDelete(c, env) ==
    /\ callPc[c] = "ending"
    /\ \E ok \in env.stores :
        /\ StoreMemory([type |-> "story_state", storyID |-> callArgs[c].storyID,
                        content |-> <<"e", "n", "d">>], ok)
        /\ Returned(c, callArgs[c], [status |-> "ok"],
                    [callEffects[c] EXCEPT !.stored = ok, !.storeFailed = ~ok])
    /\ storyState' = DeleteStory(storyState, callArgs[c].storyID)
    /\ UNCHANGED <<storyObjs, storyCalls>>

\* the engine called by concurrent callers, the memory store working
StoryNext ==
    \/ (\E c \in Callers, id \in StoryIDs : CreateStory(c, id)) /\ UNCHANGED otherThanStory
    \/ (\E c \in Callers, id \in StoryIDs, a \in PlayerActions :
            GenerateStorySegment(c, id, a)) /\ UNCHANGED otherThanStory
    \/ (\E c \in Callers, id \in StoryIDs, t \in ChoiceTexts :
            ApplyOption(c, id, t, Reliable)) /\ UNCHANGED otherThanStory
    \/ (\E c \in Callers : SegmentLookup(c)) /\ UNCHANGED otherThanStory
    \/ (\E c \in Callers : LLMFails(c)) /\ UNCHANGED otherThanStory
    \/ (\E c \in Callers : LLMReturns(c, Reliable)) /\ UNCHANGED otherThanStory
    \/ (\E c \in Callers : StoreAction(c, Reliable)) /\ UNCHANGED otherThanStory
    \/ (\E c \in Callers, id \in StoryIDs : EndStory(c, id)) /\ UNCHANGED otherThanStory
    \/ (\E c \in Callers : EndStoryDelete(c, Reliable)) /\ UNCHANGED otherThanStory

\* the engine called by one caller at a time, the memory store and the
\* embedding service failing at will
SoleCaller == "g1"

MemoryNext ==
    \/ (\E id \in StoryIDs : CreateStory(SoleCaller, id)) /\ UNCHANGED otherThanStory
    \/ (\E id \in StoryIDs, a \in PlayerActions :
            GenerateStorySegment(SoleCaller, id, a)) /\ UNCHANGED otherThanStory
    \/ (\E id \in StoryIDs, t \in ChoiceTexts :
            ApplyOption(SoleCaller, id, t, Unreliable)) /\ UNCHANGED otherThanStory
    \/ SegmentLookup(SoleCaller) /\ UNCHANGED otherThanStory
    \/ LLMFails(SoleCaller) /\ UNCHANGED otherThanStory
    \/ LLMReturns(SoleCaller, Unreliable) /\ UNCHANGED otherThanStory
    \/ StoreAction(SoleCaller, Unreliable) /\ UNCHANGED otherThanStory
    \/ (\E id \in StoryIDs : EndStory(SoleCaller, id)) /\ UNCHANGED otherThanStory
    \/ EndStoryDelete(SoleCaller, Unreliable) /\ UNCHANGED otherThanStory


(***************************************************************************)
(* GetStoryState and the value it returns.  A StoryState holds strings, an *)
(* Options slice and a Custom map; the slice and the map are references to *)
(* a backing array and to a map object.  The engine builds every option    *)
(* with a nil Metadata and never writes an entry into Custom.              *)
(***************************************************************************)
CustomKeys == {"k"}
CustomValues == {"v", "w"}
EditTexts == {<<"x">>}
EditOptionTexts == {"edited"}

NoState == [exists |-> FALSE]

\* the fields of a state with its references followed
Deref(st) ==
    IF st.exists
    THEN [exists |-> TRUE, previousText |-> st.previousText,
          options |-> optArrays[st.options], custom |-> customMaps[st.custom]]
    ELSE st

CopyInit ==
    /\ liveState = NoState
    /\ optArrays = <<>>
    /\ customMaps = <<>>
    /\ stateCopy = NoState
    /\ copyLast = "none"
    /\ copyOps = 0

CopyStep(op) ==
    /\ copyOps < MaxCopyOps
    /\ copyOps' = copyOps + 1
    /\ copyLast' = op

\* CreateStory: the initial state with an empty map, and the text and the
\* options of the first segment
NewStoryState(text) ==
    /\ ~liveState.exists
    /\ CopyStep("create")
    /\ optArrays' = Append(optArrays, parseOptionsFromResponse(text))
    /\ customMaps' = Append(customMaps, <<>>)
    /\ liveState' = [exists |-> TRUE, previousText |-> text,
                     options |-> Len(optArrays) + 1, custom |-> Len(customMaps) + 1]
    /\ UNCHANGED stateCopy

\* the update of GenerateStorySegment: the text, and a new slice of options
UpdateState(text) ==
    /\ liveState.exists
    /\ CopyStep("write")
    /\ optArrays' = Append(optArrays, parseOptionsFromResponse(text))
    /\ liveState' = [liveState EXCEPT !.previousText = text,
                                      !.options = Len(optArrays) + 1]
    /\ UNCHANGED <<customMaps, stateCopy>>

\* a copy whose Options slice is the slice of the state
OptionsOfCopyShared(own, fresh) == own

\* stateCopy.Options: append onto an empty slice, a fresh backing array
OptionsOfCopy(own, fresh) == fresh

\* GetStoryState: the struct is copied, the options are appended onto an
\* empty slice and the entries of Custom are put into a new map
ReadState ==
    /\ liveState.exists
    /\ CopyStep("read")
    /\ optArrays' = Append(optArrays, optArrays[liveState.options])
    /\ customMaps' = Append(customMaps, customMaps[liveState.custom])
    /\ stateCopy' = [liveState EXCEPT
                        !.options = OptionsOfCopy(liveState.options, Len(optArrays) + 1),
                        !.custom = Len(customMaps) + 1]
    /\ UNCHANGED liveState

\* the caller assigns to a string field of the value it holds
EditCopyText(text) ==
    /\ stateCopy.exists
    /\ CopyStep("edit")
    /\ stateCopy' = [stateCopy EXCEPT !.previousText = text]
    /\ UNCHANGED <<liveState, optArrays, customMaps>>

\* the caller assigns to an element of the Options slice it holds
EditCopyOption(i, text) ==
    /\ stateCopy.exists
    /\ i \in 1..Len(optArrays[stateCopy.options])
    /\ CopyStep("edit")
    /\ optArrays' = [optArrays EXCEPT ![stateCopy.options][i].text = text]
    /\ UNCHANGED <<liveState, customMaps, stateCopy>>

\* the caller puts an entry into the Custom map it holds
EditCopyCustom(k, v) ==
    /\ stateCopy.exists
    /\ CopyStep("edit")
    /\ customMaps' = [customMaps EXCEPT ![stateCopy.custom] = With(@, k, v)]
    /\ UNCHANGED <<liveState, optArrays, stateCopy>>

CopyNext ==
    \/ (\E text \in LLMTexts : NewStoryState(text)) /\ UNCHANGED otherThanCopy
    \/ (\E text \in LLMTexts : UpdateState(text)) /\ UNCHANGED otherThanCopy
    \/ ReadState /\ UNCHANGED otherThanCopy
    \/ (\E text \in EditTexts : EditCopyText(text)) /\ UNCHANGED otherThanCopy
    \/ (\E i \in 1..3, text \in EditOptionTexts : EditCopyOption(i, text))
            /\ UNCHANGED otherThanCopy
    \/ (\E k \in CustomKeys, v \in CustomValues : EditCopyCustom(k, v))
            /\ UNCHANGED otherThanCopy

(***************************************************************************)
(* The live connection: Handlers.ConnectLive and DisconnectLive, the       *)
(* LiveService they use, and the session of a BilibiliAdapter with its     *)
(* read loop, its heartbeat and the forwarder that reads its output        *)
(* channel.  Connect passes the context of the HTTP request to the three   *)
(* goroutines; that context is done once ConnectLive has returned.         *)
(***************************************************************************)
ConnRequests == {"q1", "q2"}

LiveInit ==
    /\ liveService = 1
    /\ services = << [connected |-> FALSE, adapter |-> 0] >>
    /\ adapterObjs = <<>>
    /\ connPc = [q \in ConnRequests |-> "idle"]
    /\ connResult = [q \in ConnRequests |-> "none"]
    /\ disconnects = 0

\* NewBilibiliAdapter and a Connect that has succeeded: the socket is open,
\* the read loop and the heartbeat run, and LiveService.Connect has started
\* the forwarder
NewSession ==
    [connected |-> TRUE, conn |-> "open", chanClosed |-> FALSE,
     reader |-> "running", heartbeat |-> "running", forwarder |-> "running",
     readError |-> FALSE, writeError |-> FALSE]

\* NewBilibiliAdapter and a Connect that has failed: no goroutine started
NoSession ==
    [connected |-> FALSE, conn |-> "none", chanClosed |-> FALSE,
     reader |-> "none", heartbeat |-> "none", forwarder |-> "none",
     readError |-> FALSE, writeError |-> FALSE]

\* LiveService.IsConnected on the service in use
IsConnected == services[liveService].connected

\* ConnectLive up to its IsConnected check: Conflict when connected
ConnectLiveCheck(q) ==
    /\ connPc[q] = "idle"
    /\ IF IsConnected
       THEN /\ connPc' = [connPc EXCEPT ![q] = "done"]
            /\ connResult' = [connResult EXCEPT ![q] = "conflict"]
       ELSE /\ connPc' = [connPc EXCEPT ![q] = "checked"]
            /\ UNCHANGED connResult
    /\ UNCHANGED <<liveService, services, adapterObjs, disconnects>>

\* ConnectLive after the check: a new LiveService replaces the one in use,
\* and its Connect, which finds connected false, makes a new adapter and
\* connects it
ConnectLiveConnect(q, ok) ==
    /\ connPc[q] = "checked"
    /\ adapterObjs' = Append(adapterObjs, IF ok THEN NewSession ELSE NoSession)
    /\ services' = Append(services, [connected |-> ok,
                                     adapter |-> Len(adapterObjs) + 1])
    /\ liveService' = Len(services) + 1
    /\ connPc' = [connPc EXCEPT ![q] = "done"]
    /\ connResult' = [connResult EXCEPT ![q] = IF ok THEN "ok" ELSE "error"]
    /\ UNCHANGED disconnects

\* the adapter after the read loop has returned: the deferred close()
\* clears connected and closes heartbeatDone
AfterReaderExit(ad, failed) ==
    [ad EXCEPT !.reader = "exited", !.connected = FALSE,
               !.readError = @ \/ failed]

\* readMessages: ReadMessage returns an error
ReadError(a) ==
    /\ adapterObjs[a].reader = "running"
    /\ adapterObjs' = [adapterObjs EXCEPT ![a] = AfterReaderExit(@, TRUE)]
    /\ UNCHANGED <<liveService, services, connPc, connResult, disconnects>>

\* readMessages: a message was read and the loop finds the context done
ReaderCancelled(a) ==
    /\ adapterObjs[a].reader = "running"
    /\ adapterObjs[a].conn = "open"
    /\ adapterObjs' = [adapterObjs EXCEPT ![a] = AfterReaderExit(@, FALSE)]
    /\ UNCHANGED <<liveService, services, connPc, connResult, disconnects>>

\* readMessages: ReadMessage returned a message that holds a danmaku to pass
\* on, and handleMessage is at work on it (any other message leaves the
\* loop where it was)
ReaderGotMessage(a) ==
    /\ adapterObjs[a].reader = "running"
    /\ adapterObjs[a].conn = "open"
    /\ adapterObjs' = [adapterObjs EXCEPT ![a].reader = "handling"]
    /\ UNCHANGED <<liveService, services, connPc, connResult, disconnects>>

\* parseDanmaku reaches its select on danmakuChan: the danmaku is sent or
\* dropped on an open channel, and the send panics on a closed one
ReaderSends(a) ==
    /\ adapterObjs[a].reader = "handling"
    /\ adapterObjs' = [adapterObjs EXCEPT ![a].reader =
                          IF adapterObjs[a].chanClosed
                          THEN "panicked" ELSE "running"]
    /\ UNCHANGED <<liveService, services, connPc, connResult, disconnects>>

\* heartbeat: sendMessage returns an error and the goroutine returns
HeartbeatError(a) ==
    /\ adapterObjs[a].heartbeat = "running"
    /\ adapterObjs' = [adapterObjs EXCEPT ![a].heartbeat = "exited",
                                          ![a].writeError = TRUE]
    /\ UNCHANGED <<liveService, services, connPc, connResult, disconnects>>

\* heartbeat: the context is done
HeartbeatCancelled(a) ==
    /\ adapterObjs[a].heartbeat = "running"
    /\ adapterObjs' = [adapterObjs EXCEPT ![a].heartbeat = "exited"]
    /\ UNCHANGED <<liveService, services, connPc, connResult, disconnects>>

\* forwardDanmaku: the context is done
ForwarderCancelled(a) ==
    /\ adapterObjs[a].forwarder = "running"
    /\ adapterObjs' = [adapterObjs EXCEPT ![a].forwarder = "cancelled"]
    /\ UNCHANGED <<liveService, services, connPc, connResult, disconnects>>

\* forwardDanmaku: the receive reports the channel closed
ForwarderEndOfStream(a) ==
    /\ adapterObjs[a].forwarder = "running"
    /\ adapterObjs[a].chanClosed
    /\ adapterObjs' = [adapterObjs EXCEPT ![a].forwarder = "endOfStream"]
    /\ UNCHANGED <<liveService, services, connPc, connResult, disconnects>>

\* DisconnectLive: Conflict when the service in use is not connected; else
\* LiveService.Disconnect, whose BilibiliAdapter.Disconnect does nothing for
\* an adapter that is not connected and else closes the socket and the
\* output channel
DisconnectLive ==
    /\ disconnects < MaxDisconnects
    /\ disconnects' = disconnects + 1
    /\ IF IsConnected
       THEN LET a == services[liveService].adapter IN
            /\ services' = [services EXCEPT ![liveService].connected = FALSE]
            /\ adapterObjs' =
                  IF adapterObjs[a].connected
                  THEN [adapterObjs EXCEPT ![a].connected = FALSE,
                                           ![a].conn = "closed",
                                           ![a].chanClosed = TRUE]
                  ELSE adapterObjs
       ELSE UNCHANGED <<services, adapterObjs>>
    /\ UNCHANGED <<liveService, connPc, connResult>>

Adapters == DOMAIN adapterObjs

LiveNext ==
    \/ (\E q \in ConnRequests : ConnectLiveCheck(q)) /\ UNCHANGED otherThanLive
    \/ (\E q \in ConnRequests, ok \in BOOLEAN : ConnectLiveConnect(q, ok))
            /\ UNCHANGED otherThanLive
    \/ (\E a \in Adapters : ReadError(a)) /\ UNCHANGED otherThanLive
    \/ (\E a \in Adapters : ReaderCancelled(a)) /\ UNCHANGED otherThanLive
    \/ (\E a \in Adapters : ReaderGotMessage(a)) /\ UNCHANGED otherThanLive
    \/ (\E a \in Adapters : ReaderSends(a)) /\ UNCHANGED otherThanLive
    \/ (\E a \in Adapters : HeartbeatError(a)) /\ UNCHANGED otherThanLive
    \/ (\E a \in Adapters : HeartbeatCancelled(a)) /\ UNCHANGED otherThanLive
    \/ (\E a \in Adapters : ForwarderCancelled(a)) /\ UNCHANGED otherThanLive
    \/ (\E a \in Adapters : ForwarderEndOfStream(a)) /\ UNCHANGED otherThanLive
    \/ DisconnectLive /\ UNCHANGED otherThanLive


(***************************************************************************)
(* ImageQueue (generators package).  requests is a buffered channel;       *)
(* Start launches maxWorkers worker goroutines on one context.  Stop,      *)
(* which closes the channel, is called nowhere in the repository, so the   *)
(* channel stays open.                                                     *)
(***************************************************************************)
RequestIDs == {"r1", "r2"}

QueueWorkers == {"w1", "w2"}

NoRequest == [id |-> "none", err |-> "none"]

QueueInit ==
    /\ requests = <<>>
    /\ results = <<>>
    /\ workerTask = [w \in QueueWorkers |-> "idle"]
    /\ resultsPushed = [id \in RequestIDs |-> 0]
    /\ queueCtx = "live"
    /\ queuePanicked = FALSE
    /\ enqueueLast = NoRequest
    /\ enqueues = 0

\* A send that displaces the oldest request when the channel is full.
EnqueueSelectDisplacing(q, id) ==
    IF Len(q) < QueueCap
    THEN [requests |-> Append(q, id), err |-> "nil"]
    ELSE [requests |-> Append(Tail(q), id), err |-> "queue is full"]

\* The select of Enqueue: the send case when the channel has room, the
\* default case otherwise.
EnqueueSelect(q, id) ==
    IF Len(q) < QueueCap
    THEN [requests |-> Append(q, id), err |-> "nil"]
    ELSE [requests |-> q, err |-> "queue is full"]

Enqueue(id) ==
    /\ ~queuePanicked
    /\ enqueues < MaxEnqueues
    /\ enqueues' = enqueues + 1
    /\ requests' = EnqueueSelect(requests, id).requests
    /\ enqueueLast' = [id |-> id, err |-> EnqueueSelect(requests, id).err]
    /\ UNCHANGED <<results, workerTask, resultsPushed, queueCtx, queuePanicked>>

\* worker: the receive case of its select.
WorkerReceive(w) ==
    /\ ~queuePanicked
    /\ workerTask[w] = "idle"
    /\ requests # <<>>
    /\ workerTask' = [workerTask EXCEPT ![w] = Head(requests)]
    /\ requests' = Tail(requests)
    /\ UNCHANGED <<results, resultsPushed, queueCtx, queuePanicked,
                   enqueueLast, enqueues>>

\* worker: GenerateImage returned a result; it is stored in results and
\* sent on the request's ResultCh, unless nobody takes it within 5 seconds
\* or the context ends first.
WorkerGenerated(w, pushed) ==
    /\ ~queuePanicked
    /\ workerTask[w] \in RequestIDs
    /\ results' = With(results, workerTask[w], "image")
    /\ resultsPushed' = [resultsPushed EXCEPT
                           ![workerTask[w]] = IF pushed THEN @ + 1 ELSE @]
    /\ workerTask' = [workerTask EXCEPT ![w] = "idle"]
    /\ UNCHANGED <<requests, queueCtx, queuePanicked, enqueueLast, enqueues>>

\* worker: GenerateImage returned (nil, err); reading imageData.ImageData
\* dereferences the nil result and the goroutine panics.
WorkerGenerateFails(w) ==
    /\ ~queuePanicked
    /\ workerTask[w] \in RequestIDs
    /\ queuePanicked' = TRUE
    /\ UNCHANGED <<requests, results, workerTask, resultsPushed, queueCtx,
                   enqueueLast, enqueues>>

\* worker: the ctx.Done() case of its select.
WorkerCancelled(w) ==
    /\ ~queuePanicked
    /\ queueCtx = "done"
    /\ workerTask[w] = "idle"
    /\ workerTask' = [workerTask EXCEPT ![w] = "exited"]
    /\ UNCHANGED <<requests, results, resultsPushed, queueCtx, queuePanicked,
                   enqueueLast, enqueues>>

\* The owner of the context cancels it.
QueueContextDone ==
    /\ ~queuePanicked
    /\ queueCtx = "live"
    /\ queueCtx' = "done"
    /\ UNCHANGED <<requests, results, workerTask, resultsPushed,
                   queuePanicked, enqueueLast, enqueues>>

GetQueueSize == Len(requests)

QueueNext ==
    \/ \E id \in RequestIDs : Enqueue(id) /\ UNCHANGED otherThanQueue
    \/ \E w \in QueueWorkers : WorkerReceive(w) /\ UNCHANGED otherThanQueue
    \/ \E w \in QueueWorkers, pushed \in BOOLEAN :
           WorkerGenerated(w, pushed) /\ UNCHANGED otherThanQueue
    \/ \E w \in QueueWorkers : WorkerGenerateFails(w) /\ UNCHANGED otherThanQueue
    \/ \E w \in QueueWorkers : WorkerCancelled(w) /\ UNCHANGED otherThanQueue
    \/ QueueContextDone /\ UNCHANGED otherThanQueue


(***************************************************************************)
(* ComfyUIManager (infra package): the supervisor of the ComfyUI child     *)
(* process.  Start and Stop hold statusMutex from entry to return, so each *)
(* is one step; the child and the goroutines they leave behind run on      *)
(* their own.                                                              *)
(***************************************************************************)
ComfyUIStatusStopped == "stopped"

ComfyUIStatusStarting == "starting"

ComfyUIStatusRunning == "running"

ComfyUIStatusError == "error"

NoMgrCall == [op |-> "none", err |-> "none", before |-> "none", process |-> 0]

MgrInit ==
    /\ mgrStatus = ComfyUIStatusStopped
    /\ mgrProcess = 0
    /\ children = <<>>
    /\ diedWhile = <<>>
    /\ waiters = {}
    /\ startupWaits = {}
    /\ mgrPanicked = FALSE
    /\ mgrLast = NoMgrCall
    /\ mgrStarts = 0
    /\ mgrStops = 0

MgrCall(op, err) ==
    [op |-> op, err |-> err, before |-> mgrStatus, process |-> mgrProcess]

\* Start: nothing to do when Running; otherwise the status is Starting from
\* the first line on, the three pre-flight os.Stat checks may fail, cmd.Start
\* may fail, and on success the child is kept and waitForStartup is launched.
Start(preflight, spawned) ==
    /\ ~mgrPanicked
    /\ mgrStarts < MaxStarts
    /\ mgrStarts' = mgrStarts + 1
    /\ IF mgrStatus = ComfyUIStatusRunning
       THEN /\ mgrLast' = MgrCall("start", "nil")
            /\ UNCHANGED <<mgrStatus, mgrProcess, children, diedWhile,
                           startupWaits>>
       ELSE IF ~preflight
       THEN /\ mgrStatus' = ComfyUIStatusStarting
            /\ mgrLast' = MgrCall("start", "not found")
            /\ UNCHANGED <<mgrProcess, children, diedWhile, startupWaits>>
       ELSE IF ~spawned
       THEN /\ mgrStatus' = ComfyUIStatusError
            /\ mgrLast' = MgrCall("start", "failed to start ComfyUI")
            /\ UNCHANGED <<mgrProcess, children, diedWhile, startupWaits>>
       ELSE /\ mgrStatus' = ComfyUIStatusStarting
            /\ mgrProcess' = mgrStarts + 1
            /\ children' = With(children, mgrStarts + 1, "alive")
            /\ diedWhile' = With(diedWhile, mgrStarts + 1, "none")
            /\ startupWaits' = startupWaits \cup {mgrStarts + 1}
            /\ mgrLast' = MgrCall("start", "nil")
    /\ UNCHANGED <<waiters, mgrPanicked, mgrStops>>

\* What process.Kill() can return for a child in state c: nil for one that
\* runs or is dying, "process already finished" for one that was waited
\* for, and either for one that has exited and was not waited for (nil where
\* the pid still takes a signal, an error where its handle does not).
KillOutcomes(c) ==
    CASE c = "reaped" -> {FALSE}
      [] c = "exited" -> BOOLEAN
      [] OTHER -> {TRUE}

\* The cases of the select at the end of Stop: the Wait goroutine delivered
\* nil or an error, the context ended, or 5 seconds passed.  A second Wait on
\* a child another goroutine already waits for is the one that can fail.
StopSelects(pid) ==
    {"exited", "cancelled", "timeout"} \cup
        (IF pid \in waiters THEN {"waitFailed"} ELSE {})

Killed(c) == IF c = "alive" THEN "killed" ELSE c

\* What Stop leaves behind for the select case taken.
StatusAfterStop(sel) ==
    CASE sel = "exited" ->
            [status |-> ComfyUIStatusStopped, err |-> "nil",
             child |-> "reaped", waits |-> FALSE]
      [] sel = "waitFailed" ->
            [status |-> ComfyUIStatusError, err |-> "wait failed",
             child |-> "killed", waits |-> FALSE]
      [] sel = "cancelled" ->
            [status |-> ComfyUIStatusStopped, err |-> "context done",
             child |-> "killed", waits |-> TRUE]
      [] OTHER ->
            [status |-> ComfyUIStatusStopped, err |-> "stop timeout",
             child |-> "killed", waits |-> TRUE]

Stop(killed, sel) ==
    /\ ~mgrPanicked
    /\ mgrStops < MaxStops
    /\ mgrStops' = mgrStops + 1
    /\ IF mgrStatus = ComfyUIStatusStopped
       THEN /\ mgrLast' = MgrCall("stop", "nil")
            /\ UNCHANGED <<mgrStatus, children, waiters, mgrPanicked>>
       ELSE IF mgrProcess = 0
       \* no child was ever kept: the Wait goroutine dereferences the nil
       \* process and panics
       THEN /\ mgrStatus' = ComfyUIStatusStopped
            /\ mgrPanicked' = TRUE
            /\ mgrLast' = MgrCall("stop", "panic")
            /\ UNCHANGED <<children, waiters>>
       ELSE /\ killed \in KillOutcomes(children[mgrProcess])
            /\ sel \in StopSelects(mgrProcess)
            /\ IF ~killed
               THEN /\ mgrStatus' = ComfyUIStatusStopped
                    /\ mgrLast' = MgrCall("stop", "failed to kill ComfyUI")
                    /\ UNCHANGED <<children, waiters>>
               ELSE /\ mgrStatus' = StatusAfterStop(sel).status
                    /\ mgrLast' = MgrCall("stop", StatusAfterStop(sel).err)
                    /\ children' = [children EXCEPT ![mgrProcess] =
                           IF StatusAfterStop(sel).child = "reaped"
                           THEN "reaped" ELSE Killed(@)]
                    /\ waiters' = IF StatusAfterStop(sel).waits
                                  THEN waiters \cup {mgrProcess}
                                  ELSE waiters \ {mgrProcess}
            /\ UNCHANGED mgrPanicked
    /\ UNCHANGED <<mgrProcess, diedWhile, startupWaits, mgrStarts>>

\* waitForStartup of the start that spawned child pid: after the 3 second
\* sleep, Starting becomes Running.
waitForStartup(pid) ==
    /\ ~mgrPanicked
    /\ pid \in startupWaits
    /\ startupWaits' = startupWaits \ {pid}
    /\ mgrStatus' = IF mgrStatus = ComfyUIStatusStarting
                    THEN ComfyUIStatusRunning ELSE mgrStatus
    /\ UNCHANGED <<mgrProcess, children, diedWhile, waiters, mgrPanicked,
                   mgrLast, mgrStarts, mgrStops>>

\* The child process exits on its own.
ChildExits(pid) ==
    /\ ~mgrPanicked
    /\ pid \in DOMAIN children
    /\ children[pid] = "alive"
    /\ children' = [children EXCEPT ![pid] = "exited"]
    /\ diedWhile' = [diedWhile EXCEPT
                       ![pid] = IF mgrProcess = pid THEN mgrStatus ELSE @]
    /\ UNCHANGED <<mgrStatus, mgrProcess, waiters, startupWaits, mgrPanicked,
                   mgrLast, mgrStarts, mgrStops>>

\* A Wait goroutine that outlived its Stop call returns: the child is gone.
WaitReturns(pid) ==
    /\ ~mgrPanicked
    /\ pid \in waiters
    /\ children' = [children EXCEPT ![pid] = "reaped"]
    /\ waiters' = waiters \ {pid}
    /\ UNCHANGED <<mgrStatus, mgrProcess, diedWhile, startupWaits,
                   mgrPanicked, mgrLast, mgrStarts, mgrStops>>

GetStatus == mgrStatus

IsReady == mgrStatus = ComfyUIStatusRunning

MgrNext ==
    \/ \E preflight, spawned \in BOOLEAN :
           Start(preflight, spawned) /\ UNCHANGED otherThanMgr
    \/ \E killed \in BOOLEAN,
          sel \in {"exited", "waitFailed", "cancelled", "timeout"} :
           Stop(killed, sel) /\ UNCHANGED otherThanMgr
    \/ \E pid \in 1..MaxStarts : waitForStartup(pid) /\ UNCHANGED otherThanMgr
    \/ \E pid \in 1..MaxStarts : ChildExits(pid) /\ UNCHANGED otherThanMgr
    \/ \E pid \in 1..MaxStarts : WaitReturns(pid) /\ UNCHANGED otherThanMgr


(***************************************************************************)
(* main: wait for SIGINT or SIGTERM, call server.Shutdown with a 30 second *)
(* context, return.  Shutdown leaves hijacked (WebSocket) connections      *)
(* alone; the goroutines of the hub and of the clients run until main      *)
(* returns and the process ends, and none of them is told anything.        *)
(***************************************************************************)
MainInit == mainPc = "serving"

\* <-quit
ShutdownSignal ==
    /\ mainPc = "serving"
    /\ mainPc' = "shutdown"

\* server.Shutdown returned and main returns: the process is gone
MainReturns ==
    /\ mainPc = "shutdown"
    /\ mainPc' = "exited"

\* The hub and its clients for as long as the process lives, and main.
ShutdownNext ==
    \/ mainPc # "exited" /\ HubNext /\ UNCHANGED mainVars
    \/ ShutdownSignal /\ UNCHANGED otherThanMain
    \/ MainReturns /\ UNCHANGED otherThanMain


(***************************************************************************)
(* BilibiliAdapter.handleMessage: the packets of one WebSocket message.    *)
(* A packet is a 16 byte big-endian header (packet length, header length,  *)
(* version, operation, sequence) and a body.                               *)
(***************************************************************************)
headerLength == 16

operationMessage == 5

operationHeartbeat == 2

\* binary.BigEndian.PutUint32 and PutUint16
PutUint32(n) ==
    << (n \div 16777216) % 256, (n \div 65536) % 256, (n \div 256) % 256,
       n % 256 >>

PutUint16(n) == << (n \div 256) % 256, n % 256 >>

\* binary.BigEndian.Uint32 of the four bytes at data[from+1..from+4]
\* (from counts from 0, as Go does)
Uint32(data, from) ==
    data[from + 1] * 16777216 + data[from + 2] * 65536
        + data[from + 3] * 256 + data[from + 4]

\* n bytes of body
RECURSIVE BodyBytes(_)
BodyBytes(n) == IF n = 0 THEN <<>> ELSE <<123>> \o BodyBytes(n - 1)

\* A packet as the upstream server frames it, with the length it declares
\* and the body it really carries.
PacketBytes(pk) ==
    PutUint32(pk.declared) \o PutUint16(headerLength) \o PutUint16(1)
        \o PutUint32(pk.operation) \o PutUint32(1) \o BodyBytes(pk.body)

\* The packet lengths a header may declare, the operations, and the body
\* lengths really present.
DeclaredLengths == {0, 15, 16, 18, 40}

Operations == {operationMessage, operationHeartbeat}

BodyLengths == {0, 2}

Packets ==
    [declared : DeclaredLengths, operation : Operations, body : BodyLengths]

\* The bytes after the last whole packet of a read: none, or a cut header.
TailLengths == {0, 3}

\* The room of the backing array beyond len(data).
CapSlacks == {0, 30}

RECURSIVE Concat(_)
Concat(pks) ==
    IF pks = <<>> THEN <<>> ELSE PacketBytes(Head(pks)) \o Concat(Tail(pks))

Buffers ==
    { Concat(pks) \o BodyBytes(t) :
        pks \in UNION {[1..n -> Packets] : n \in 1..MaxPackets},
        t \in TailLengths }

FrameInit ==
    /\ frameData = <<>>
    /\ frameCap = 0
    /\ frameOffset = 0
    /\ framePc = "idle"
    /\ frameBodies = <<>>

\* readMessages: conn.ReadMessage returned data; handleMessage(data) begins.
\* One message is followed from its arrival to the return of handleMessage.
ReadMessage(data, slack) ==
    /\ framePc = "idle"
    /\ frameData' = data
    /\ frameCap' = Len(data) + slack
    /\ frameOffset' = 0
    /\ frameBodies' = <<>>
    /\ framePc' = "loop"

\* a length test that lets every packet through
ShortPacketNever(packetLen) == FALSE

\* if packetLen < headerLength
ShortPacket(packetLen) == packetLen < headerLength

\* One pass of the loop of handleMessage, from its condition to the advance
\* of the offset.
handleMessage ==
    /\ framePc = "loop"
    /\ UNCHANGED <<frameData, frameCap>>
    /\ IF ~(frameOffset < Len(frameData))
       THEN /\ framePc' = "done"
            /\ UNCHANGED <<frameOffset, frameBodies>>
       ELSE IF Len(frameData) < frameOffset + headerLength
       THEN /\ framePc' = "done"
            /\ UNCHANGED <<frameOffset, frameBodies>>
       ELSE LET packetLen == Uint32(frameData, frameOffset)
                operation == Uint32(frameData, frameOffset + 8)
            IN  IF ShortPacket(packetLen)
                THEN /\ framePc' = "done"
                     /\ UNCHANGED <<frameOffset, frameBodies>>
                ELSE IF /\ operation = operationMessage
                        /\ frameOffset + packetLen > frameCap
                \* data[offset+headerLength : offset+packetLen] with the
                \* high index beyond cap(data): slice bounds out of range
                THEN /\ framePc' = "panicked"
                     /\ UNCHANGED <<frameOffset, frameBodies>>
                ELSE /\ frameBodies' =
                            IF operation = operationMessage
                            THEN Append(frameBodies,
                                        [first |-> frameOffset + headerLength,
                                         last |-> frameOffset + packetLen])
                            ELSE frameBodies
                     /\ frameOffset' = frameOffset + packetLen
                     /\ framePc' = "loop"

FrameNext ==
    \/ /\ framePc = "idle"
       /\ \E data \in Buffers, slack \in CapSlacks : ReadMessage(data, slack)
       /\ UNCHANGED otherThanFrame
    \/ handleMessage /\ UNCHANGED otherThanFrame


(***************************************************************************)
(* MemoryStore.StoreMemory and QdrantClient.InsertPoints.  A point of the  *)
(* collection is kept with the Memory it was built from, which Qdrant does *)
(* not hold under that name: the Point.ID never reaches the upsert.        *)
(***************************************************************************)
MemoryIDs == {"player_action_s1_1", "player_action_s1_2", "decision_s1_3"}

QdrantInit ==
    /\ qdrantPoints = <<>>
    /\ storedIDs = {}
    /\ storeLast = [id |-> "none", err |-> "none"]
    /\ storeOps = 0

\* qdrant.NewPoint(uint64(i), ...): the id of a point of the batch is its
\* index in the batch
PointID(points, i) == i - 1

\* InsertPoints: the batch is upserted; a point replaces the point that has
\* its id, and later points of the batch win
RECURSIVE InsertPoints(_, _, _)
InsertPoints(collection, points, i) ==
    IF i > Len(points) THEN collection
    ELSE InsertPoints(With(collection, PointID(points, i), points[i]),
                      points, i + 1)

\* InsertPoint: a batch of one
InsertPoint(collection, point) == InsertPoints(collection, <<point>>, 1)

\* StoreMemory: embed the content, build the point, insert it; an error of
\* the embedding or of the upsert is returned and nothing is stored
StoreMemoryPoint(id, content, embedded, upserted) ==
    /\ storeOps < MaxStores
    /\ storeOps' = storeOps + 1
    /\ IF ~embedded
       THEN /\ storeLast' = [id |-> id, err |-> "failed to generate embedding"]
            /\ UNCHANGED <<qdrantPoints, storedIDs>>
       ELSE IF ~upserted
       THEN /\ storeLast' = [id |-> id, err |-> "failed to upsert points"]
            /\ UNCHANGED <<qdrantPoints, storedIDs>>
       ELSE /\ qdrantPoints' = InsertPoint(qdrantPoints,
                                           [id |-> id, content |-> content])
            /\ storedIDs' = storedIDs \cup {id}
            /\ storeLast' = [id |-> id, err |-> "nil"]

\* the memories a search over the collection can return
Retrievable == {qdrantPoints[p].id : p \in DOMAIN qdrantPoints}

QdrantNext ==
    \E id \in MemoryIDs, content \in {"x", "y"}, embedded, upserted \in BOOLEAN :
        StoreMemoryPoint(id, content, embedded, upserted)
            /\ UNCHANGED otherThanQdrant

Init == HubInit /\ AdapterInit /\ CacheInit /\ GenInit /\ StoryInit
        /\ CopyInit
        /\ LiveInit
        /\ QueueInit
        /\ MgrInit
        /\ MainInit
        /\ FrameInit
        /\ QdrantInit

SpecHub == Init /\ [][HubNext]_vars

SpecAdapter == Init /\ [][AdapterNext]_vars

SpecCache == Init /\ [][CacheNext]_vars

SpecGen == Init /\ [][GenNext]_vars

SpecStory == Init /\ [][StoryNext]_vars

SpecMemory == Init /\ [][MemoryNext]_vars

SpecCopy == Init /\ [][CopyNext]_vars

SpecLive == Init /\ [][LiveNext]_vars

SpecQueue == Init /\ [][QueueNext]_vars

SpecManager == Init /\ [][MgrNext]_vars

SpecQdrant == Init /\ [][QdrantNext]_vars

\* The hub's dispatcher takes what its channels hold, a handler that has
\* queued its client goes on, and a read on a closed connection fails.
SpecHubLive ==
    /\ SpecHub
    /\ \A c \in Clients : WF_vars(HandlerWelcome(c) /\ UNCHANGED otherThanHub)
    /\ WF_vars(registerClient /\ UNCHANGED otherThanHub)
    /\ WF_vars(unregisterClient /\ UNCHANGED otherThanHub)
    /\ WF_vars(broadcastDanmaku /\ UNCHANGED otherThanHub)
    /\ \A c \in Clients :
           WF_vars(connClosed[c] /\ ReadPumpExit(c) /\ UNCHANGED otherThanHub)

\* The goroutine running readMessages is scheduled while it is in the loop.
SpecFrames ==
    Init /\ [][FrameNext]_vars /\ WF_vars(handleMessage /\ UNCHANGED otherThanFrame)

\* Every goroutine of the server is scheduled for as long as it can run.
SpecShutdown == Init /\ [][ShutdownNext]_vars /\ WF_vars(ShutdownNext)

(***************************************************************************)
(* Claims about the broadcast hub.                                         *)
(***************************************************************************)
IsDanmaku(f) == f.type = "danmaku"

\* the frames a client holds or has been sent
FramesOf(c) == {clientSend[c][i] : i \in 1..Len(clientSend[c])} \cup
               {written[c][i] : i \in 1..Len(written[c])}

\* C1: no subscriber's outbound queue ever holds more frames than its bound;
\* the dispatcher can always take the next pending broadcast (it never
\* blocks); and a fan-out step drops the frame exactly for the subscribers
\* whose queue is full, enqueues it for every other subscriber, and moves on
\* to the next event.
C1_BoundedQueueDropNoBlock ==
    /\ [](\A c \in Clients : Len(clientSend[c]) <= SendCap)
    /\ [](hubBroadcast # <<>> => ENABLED broadcastDanmaku)
    /\ [][hubBroadcast # <<>> /\ hubBroadcast' = Tail(hubBroadcast) =>
            \A c \in hubClients :
                clientSend'[c] =
                    IF Len(clientSend[c]) = SendCap
                    THEN clientSend[c]
                    ELSE Append(clientSend[c],
                                [type |-> "danmaku", data |-> Head(hubBroadcast)])
         ]_vars

\* a broadcast was dropped for one subscriber whose queue is full while
\* another subscriber got that same frame
C1_Witness ==
    \E e \in bufferFullLog : \E d \in Clients \ {e[1]} :
        /\ \E f \in FramesOf(d) : IsDanmaku(f) /\ f.data.seq = e[2]
        /\ ~\E f \in FramesOf(e[1]) : IsDanmaku(f) /\ f.data.seq = e[2]

\* C2: the danmaku frames written to a subscriber's socket appear in the
\* order of the Broadcast calls that produced them.
C2_DeliveryInBroadcastOrder ==
    \A c \in Clients : \A i, j \in 1..Len(written[c]) :
        (i < j /\ IsDanmaku(written[c][i]) /\ IsDanmaku(written[c][j]))
            => written[c][i].data.seq < written[c][j].data.seq

\* the frames of two broadcasts have both been written to one subscriber's
\* socket
C2_Witness ==
    \E c \in Clients : \E i, j \in 1..Len(written[c]) :
        /\ i < j
        /\ IsDanmaku(written[c][i]) /\ IsDanmaku(written[c][j])
        /\ written[c][i].data.seq # written[c][j].data.seq

(***************************************************************************)
(* Claims about the adapter's dedup filter.                                *)
(***************************************************************************)
\* no text is sent on the output channel twice within one dedup window
C3_NeverTwo ==
    \A x \in Texts : \A t1, t2 \in publishedAt[x] :
        t1 < t2 => t2 - t1 >= dedupWindow

\* the text of the last extraction was sent on the output channel within the
\* dedup window that ends with that extraction
C3_NeverNone ==
    lastParse.text \in Texts =>
        \E t \in publishedAt[lastParse.text] :
            lastParse.t - dedupWindow < t /\ t <= lastParse.t

\* C3: of the extractions of one text that arrive within one dedup window,
\* exactly one is sent on the adapter's output channel: no two of them are,
\* and every extraction is either sent or preceded, within the window, by
\* one that was sent.
C3_ExactlyOnePublished == C3_NeverTwo /\ C3_NeverNone

(***************************************************************************)
(* Claims about the image cache.                                           *)
(***************************************************************************)
\* C4: a put of a new fingerprint into a cache that holds maxEntries
\* entries returns, evicts exactly one entry, one with the smallest
\* lastAccessed, and leaves exactly maxEntries entries.
C4_PutAtCapacityEvictsOldest ==
    (cacheLast.op = "put" /\ cacheLast.full /\ cacheLast.result # "error") =>
        /\ cacheLast.returned
        /\ Cardinality(cacheLast.evicted) = 1
        /\ Cardinality(DOMAIN cacheEntries) = maxEntries
        /\ cacheLast.key \in DOMAIN cacheEntries

(***************************************************************************)
(* Claims about image generation.                                          *)
(***************************************************************************)
\* C5: for two concurrent image requests with the same fingerprint the
\* back-end is called exactly once, both callers receive the same bytes,
\* and never are two generations for that fingerprint in flight.
C5_OneGenerationPerFingerprint ==
    /\ \A k \in CacheKeys : Cardinality(InFlight(k)) <= 1
    /\ \A r1, r2 \in Requests :
        (/\ r1 # r2
         /\ genOverlap
         /\ genKey[r1] = genKey[r2]
         /\ genResp[r1] \in Blobs
         /\ genResp[r2] \in Blobs)
        => (genResp[r1] = genResp[r2] /\ backendCalls[genKey[r1]] = 1)

(***************************************************************************)
(* Claims about the story engine.                                          *)
(***************************************************************************)
SegmentOps == {"advance", "choose"}

\* caller c makes its state update in this step
WritesSegment(c) ==
    /\ callPc[c] = "llm"
    /\ callResult'[c].status = "ok"

\* C6: concurrent advance or choose calls on one story are serialized: a
\* call that replaces the previous_text of the state it read replaces the
\* previous_text it read, not one another call has put there since.  (The
\* call read the state after its first segment was written, so what it
\* replaces was written by an advance or choose.)
C6_AdvanceChooseSerialized ==
    [][\A c \in Callers :
        (/\ WritesSegment(c)
         /\ callArgs[c].op \in SegmentOps
         /\ callArgs[c].storyID \in DOMAIN storyState
         /\ storyState[callArgs[c].storyID] = callSnap[c].obj
         /\ callSnap[c].state.previousText # <<>>)
        => storyObjs[callSnap[c].obj].previousText = callSnap[c].state.previousText]_vars

\* C7: a create on a story id that has a state fails with AlreadyExists and
\* leaves that state as it is.
C7_CreateExistingFails ==
    [][\A c \in Callers :
        (/\ storyCalls' = storyCalls + 1
         /\ callPc'[c] # callPc[c]
         /\ callArgs'[c].op = "create"
         /\ callArgs'[c].storyID \in DOMAIN storyState)
        => (/\ callResult'[c].status = "AlreadyExists"
            /\ storyState' = storyState
            /\ storyObjs' = storyObjs)]_vars

\* C8: an advance or choose on a story id without state returns NotFound
\* having made no LLM call, changed no story state and persisted no memory.
C8_NotFoundHasNoEffect ==
    /\ [](\A c \in Callers :
            (/\ callPc[c] = "done"
             /\ callArgs[c].op \in SegmentOps
             /\ callResult[c].status = "NotFound")
            => (~callEffects[c].llm /\ ~callEffects[c].stored))
    /\ [][\A c \in Callers :
            (/\ callArgs'[c].op \in SegmentOps
             /\ callPc[c] # "done"
             /\ callPc'[c] = "done"
             /\ callResult'[c].status = "NotFound")
            => (storyState' = storyState /\ storyObjs' = storyObjs)]_vars

\* C9: a successful create, advance or choose leaves the story with a
\* non-empty options list, the one it returns; when no option was parsed
\* from the model text the list is the three default options.
C9_OptionsNeverEmpty ==
    /\ [](\A c \in Callers :
            (callPc[c] \in {"store", "done"} /\ callResult[c].status = "ok"
                /\ callArgs[c].op \in SegmentOps \cup {"create"})
            => (/\ callResult[c].options # <<>>
                /\ (parseOptionsNoDefault(callResult[c].text) = <<>>
                        => callResult[c].options = DefaultOptions)))
    /\ [][\A c \in Callers :
            (WritesSegment(c) /\ callArgs[c].storyID \in DOMAIN storyState)
            => (/\ storyObjs'[storyState[callArgs[c].storyID]].options # <<>>
                /\ storyObjs'[storyState[callArgs[c].storyID]].options
                       = callResult'[c].options)]_vars

C9_Witness ==
    \E c \in Callers :
        /\ callPc[c] = "done"
        /\ callArgs[c].op \in SegmentOps
        /\ callResult[c].status = "ok"
        /\ callResult[c].options = DefaultOptions
        /\ callArgs[c].storyID \in DOMAIN storyState
        /\ storyObjs[storyState[callArgs[c].storyID]].options = DefaultOptions

\* C10: when the LLM call of an advance or choose fails or returns no
\* choice, the call returns an LLM failure and the story's previous_text
\* and options stay as they were.
C10_LLMFailureLeavesState ==
    [][\A c \in Callers :
        (/\ callPc[c] = "llm"
         /\ callPc'[c] # "llm"
         /\ callArgs[c].op \in SegmentOps
         /\ callResult'[c].status # "ok")
        => (/\ callPc'[c] = "done"
            /\ callResult'[c].status = "LLMFailure"
            /\ callResult'[c].why \in {"error", "nochoices"}
            /\ storyState' = storyState
            /\ storyObjs' = storyObjs)]_vars

C10_Witness ==
    \E c \in Callers :
        /\ callPc[c] = "done"
        /\ callArgs[c].op \in SegmentOps
        /\ callResult[c].status = "LLMFailure"
        /\ callArgs[c].storyID \in DOMAIN storyState
        /\ storyObjs[storyState[callArgs[c].storyID]].previousText # <<>>

\* an advance or a choose that has returned
C11_Finished(c) ==
    callPc[c] = "done" /\ callArgs[c].op \in SegmentOps

\* C11: when the related-memory search, the recent-decision search or a
\* memory store fails during an advance or a choose, the call still
\* succeeds.  A finished advance or choose has failed only with NotFound or
\* with an LLM failure; after a failed related-memory search the response
\* carries an empty list; the state kept under the id holds the text and the
\* options of the response whether or not the stores succeeded; and the
\* store of the player action changes neither the response nor the state.
C11_RetrievalAndStoreFailuresTolerated ==
    /\ [](\A c \in Callers : C11_Finished(c) =>
            /\ callResult[c].status \in {"ok", "NotFound", "LLMFailure"}
            /\ callResult[c].status = "ok" =>
                /\ callEffects[c].relatedFailed => callResult[c].related = {}
                /\ callArgs[c].storyID \in DOMAIN storyState
                /\ storyObjs[storyState[callArgs[c].storyID]] =
                        [previousText |-> callResult[c].text,
                         options |-> callResult[c].options])
    /\ [][\A c \in Callers : callPc[c] = "store" /\ callPc'[c] = "done" =>
            /\ callResult'[c] = callResult[c]
            /\ storyObjs' = storyObjs
            /\ storyState' = storyState]_vars

\* an advance has returned its response although the related-memory search,
\* the recent-decision search and the store of the player action all failed
C11_Witness ==
    \E c \in Callers :
        /\ C11_Finished(c)
        /\ callArgs[c].op = "advance"
        /\ callResult[c].status = "ok"
        /\ callEffects[c].relatedFailed
        /\ callEffects[c].decisionsFailed
        /\ callEffects[c].storeFailed
        /\ ~callEffects[c].stored

\* the step is a call of c that returns in the step it begins in
C12_ReturnsAtOnce(c) ==
    /\ storyCalls' = storyCalls + 1
    /\ callPc'[c] = "done"
    /\ \A d \in Callers \ {c} : callPc'[d] \in {callPc[d], "idle"}

\* C12: at every moment the ids GetActiveStories returns are the ids for
\* which GetStoryState succeeds; the step in which an end returns success
\* leaves its id out of both; and an end that returns NotFound has changed
\* neither the state map, nor a state, nor the memory store.
C12_ActiveIdsAreKnownIds ==
    /\ [](GetActiveStories = {id \in StoryIDs : GetStoryState(id).found})
    /\ [][\A c \in Callers :
            callPc'[c] = "done" /\ callPc[c] = "ending" /\ callResult'[c].status = "ok" =>
                /\ callArgs[c].op = "end"
                /\ callArgs[c].storyID \notin GetActiveStories'
                /\ ~GetStoryState(callArgs[c].storyID)'.found]_vars
    /\ [][\A c \in Callers :
            /\ C12_ReturnsAtOnce(c) /\ callArgs'[c].op = "end"
            /\ callResult'[c].status = "NotFound"
            => /\ UNCHANGED <<storyState, storyObjs, memories>>
               /\ callEffects'[c] = NoEffects]_vars

\* an end has returned success while another caller had a call running
C12_Witness ==
    \E c, d \in Callers :
        /\ callPc[c] = "done" /\ callArgs[c].op = "end"
        /\ callResult[c].status = "ok"
        /\ callArgs[c].storyID \notin GetActiveStories
        /\ callPc[d] \in {"lookup", "llm", "store", "ending"}

(***************************************************************************)
(* Claims about the value GetStoryState returns.                           *)
(***************************************************************************)
\* C13: GetStoryState returns a deep copy.  The value returned has the
\* fields of the state; an update of the engine's state made later leaves
\* what the value shows (its options and its Custom entries included) as it
\* was; and a change the caller makes to the value, to a string, to an
\* element of its options or to its Custom map, leaves what the engine's
\* state shows as it was.
C13_StateIsDeepCopy ==
    /\ [][copyLast' = "read" => Deref(stateCopy)' = Deref(liveState)']_vars
    /\ [][copyLast' = "write" => Deref(stateCopy)' = Deref(stateCopy)]_vars
    /\ [][copyLast' = "edit" => Deref(liveState)' = Deref(liveState)]_vars

\* the caller has changed an option and the Custom map of the value it got,
\* and the engine's state has been updated since the value was read
C13_Witness ==
    /\ stateCopy.exists /\ liveState.exists
    /\ stateCopy.previousText # liveState.previousText
    /\ \E i \in 1..Len(optArrays[stateCopy.options]) :
            optArrays[stateCopy.options][i].text \in EditOptionTexts
    /\ customMaps[stateCopy.custom] # <<>>
    /\ customMaps[liveState.custom] = <<>>

\* C14: a get of a fingerprint that the cache holds an entry for (a put of
\* it succeeded, and no eviction, invalidation, clear or expiry has removed
\* it since) returns the bytes of the last successful put of that
\* fingerprint.
C14_GetReturnsWhatWasPut ==
    (/\ cacheLast.op = "get" /\ cacheLast.returned
     /\ cacheLast.key \in DOMAIN cacheEntries)
    => cacheLast.result = cacheEntries[cacheLast.key].data

\* C15: a put that succeeds for a fingerprint the cache holds an entry for
\* leaves the cache with the same fingerprints, so with one entry for that
\* fingerprint and as many entries as before, and that entry is a new one:
\* it holds the bytes now in the file and is created and accessed now.
C15_RePutReplacesEntry ==
    [][(/\ cacheLast'.op = "put" /\ cacheLast'.result = "ok"
        /\ cacheClock' = cacheClock + 1
        /\ cacheLast'.key \in DOMAIN cacheEntries)
       => /\ DOMAIN cacheEntries' = DOMAIN cacheEntries
          /\ cacheLast'.evicted = {}
          /\ cacheEntries'[cacheLast'.key] =
                [data |-> cacheFiles'[cacheLast'.key],
                 createdAt |-> cacheClock', lastAccessed |-> cacheClock']]_vars

\* the last operation is a successful put of the fingerprint of the one
\* entry held, it is the second successful put, and nothing has expired
C15_Witness ==
    /\ cacheLast.op = "put" /\ cacheLast.result = "ok"
    /\ DOMAIN cacheEntries = {cacheLast.key}
    /\ cacheStats.totalEntries = 2
    /\ cacheStats.misses = 0
    /\ cacheEntries[cacheLast.key].createdAt = cacheClock

(***************************************************************************)
(* Claims about unregistration.                                            *)
(***************************************************************************)
\* the step takes a client off the unregister channel
C16_Unregisters(c) ==
    /\ hubUnregister # <<>>
    /\ Head(hubUnregister) = c
    /\ hubUnregister' = Tail(hubUnregister)

\* C16: the unregistration of a client the hub holds takes it out of the
\* hub's set and closes its send queue, which was open until then; the
\* unregistration of a client the hub does not hold (one never registered,
\* or one unregistered before) changes neither the set nor any queue; and
\* no other step closes a queue, so that no queue is closed twice.
C16_UnregisterClosesOnce ==
    /\ [](\A c \in hubClients : ~sendClosed[c])
    /\ [][\A c \in Clients :
            /\ (C16_Unregisters(c) /\ c \in hubClients) =>
                    /\ hubClients' = hubClients \ {c}
                    /\ ~sendClosed[c]
                    /\ sendClosed' = [sendClosed EXCEPT ![c] = TRUE]
            /\ (C16_Unregisters(c) /\ c \notin hubClients) =>
                    UNCHANGED <<hubClients, sendClosed, clientSend>>
            /\ sendClosed'[c] # sendClosed[c] =>
                    (C16_Unregisters(c) /\ c \in hubClients)]_vars

\* one client has been unregistered and its queue closed, and the
\* unregistration of another has been handled while the hub did not hold
\* it: its registration is still waiting and its queue is open
C16_Witness ==
    \E c, d \in Clients :
        /\ sendClosed[c] /\ c \notin hubClients
        /\ readPc[d] = "exited" /\ hubUnregister = <<>>
        /\ d \in {hubRegister[i] : i \in 1..Len(hubRegister)}
        /\ ~sendClosed[d]

(***************************************************************************)
(* Claims about the dedup window.                                          *)
(***************************************************************************)
\* the times before t at which the text was sent on the output channel
C17_PublishedBefore(x, t) == {p \in publishedAt[x] : p < t}

\* C17: the dedup window of a text is measured from its last published
\* occurrence.  When a text arrives that was last published p seconds
\* before: with p < dedupWindow (t=30) it is suppressed, and with
\* p >= dedupWindow (t=61, the arrival at t=30 having been suppressed) it is
\* sent on the output channel.
C17_WindowFromLastPublished ==
    LET x == lastParse.text
        t == lastParse.t
    IN  (x \in Texts /\ C17_PublishedBefore(x, t) # {}) =>
            LET last == CHOOSE p \in C17_PublishedBefore(x, t) :
                            \A q \in C17_PublishedBefore(x, t) : q <= p
            IN  /\ t - last < dedupWindow => ~lastParse.sent
                /\ t - last >= dedupWindow => t \in publishedAt[x]

(***************************************************************************)
(* Claims about the live connection.                                       *)
(***************************************************************************)
\* C18: once the read loop of an adapter has met a read error, or its
\* heartbeat a write error, the adapter is no longer connected and its
\* output channel is closed.
C18_ErrorEndsSessionAndClosesChannel ==
    \A a \in Adapters :
        (adapterObjs[a].readError \/ adapterObjs[a].writeError) =>
            (~adapterObjs[a].connected /\ adapterObjs[a].chanClosed)

\* C19: at most one upstream session is active at any time, also when
\* connect requests overlap: never are two adapters connected, never are two
\* upstream sockets open, and never have two connect requests succeeded
\* with no disconnect made.
C19_AtMostOneSession ==
    /\ Cardinality({a \in Adapters : adapterObjs[a].connected}) <= 1
    /\ Cardinality({a \in Adapters : adapterObjs[a].conn = "open"}) <= 1
    /\ disconnects = 0 =>
            Cardinality({q \in ConnRequests : connResult[q] = "ok"}) <= 1

\* C20: Enqueue never blocks: whatever the channel holds, the call can be
\* made and returns.  When the channel is full it returns the queue-full
\* error and leaves the channel as it was; otherwise it returns no error and
\* the request is the newest one in the channel.
C20_EnqueueNeverBlocks ==
    /\ [](\A id \in RequestIDs :
              (~queuePanicked /\ enqueues < MaxEnqueues) => ENABLED Enqueue(id))
    /\ [][enqueues' = enqueues + 1 =>
              IF Len(requests) < QueueCap
              THEN /\ enqueueLast'.err = "nil"
                   /\ requests' = Append(requests, enqueueLast'.id)
              ELSE /\ enqueueLast'.err = "queue is full"
                   /\ requests' = requests]_vars

\* Two requests were added, a third one was refused with the channel full.
C20_Witness ==
    /\ enqueueLast.err = "queue is full"
    /\ GetQueueSize = QueueCap
    /\ enqueues > QueueCap

\* C21: a Stop call on a manager whose status is Stopped changes nothing and
\* returns nil.  A Stop call in any other status returns (by the child's
\* exit, the end of the context or the 5 second timer), and when it returns
\* nil the child the manager holds has exited and the status is Stopped.
C21_StopReturnsAndStops ==
    [][mgrStops' = mgrStops + 1 =>
          IF mgrStatus = ComfyUIStatusStopped
          THEN /\ mgrLast'.err = "nil"
               /\ UNCHANGED <<mgrStatus, mgrProcess, children, waiters,
                              startupWaits, mgrPanicked>>
          ELSE /\ ~mgrPanicked'
               /\ mgrLast'.err = "nil" =>
                      /\ mgrStatus' = ComfyUIStatusStopped
                      /\ mgrProcess \in DOMAIN children
                      /\ children'[mgrProcess] = "reaped"]_vars

\* C22: when the child the manager holds has exited on its own while the
\* status was Starting or Running, the status becomes Error and GetStatus
\* returns it: once no goroutine of the manager is left to run and no Stop
\* was called since, the status is Error.
C22_ChildDeathBecomesError ==
    \A pid \in DOMAIN children :
        (/\ mgrProcess = pid
         /\ children[pid] = "exited"
         /\ diedWhile[pid] \in {ComfyUIStatusStarting, ComfyUIStatusRunning}
         /\ startupWaits = {}
         /\ mgrLast.op = "start") =>
            GetStatus = ComfyUIStatusError

\* C23: after the shutdown signal, every client whose write pump is running
\* gets its Send queue drained and its pump terminated (by the close-frame
\* branch the pump takes when Send is closed).
C23_ShutdownDrainsWriters ==
    (mainPc # "serving") ~>
        (\A c \in Clients : writePc[c] # "running" /\ clientSend[c] = <<>>)

\* C24: when the text a story state was built from contains every marker of
\* one of the probed families, the options parsed from it are options for
\* those markers (ids "1", "2", "3" in order, each text beginning with its
\* marker and going on with the option's words), not the canned defaults.
C24_HasFamily(text) ==
    \E f \in 1..Len(optionPatterns) :
        \A i \in 1..Len(optionPatterns[f]) :
            containsSubstring(text, optionPatterns[f][i])

C24_MarkedTextGivesItsOptions ==
    \A o \in DOMAIN storyObjs :
        C24_HasFamily(storyObjs[o].previousText) =>
            /\ storyObjs[o].options # DefaultOptions
            /\ Len(storyObjs[o].options) >= 2
            /\ \A i \in 1..Len(storyObjs[o].options) :
                   /\ storyObjs[o].options[i].id = OptionID(i)
                   /\ \E f \in 1..Len(optionPatterns) :
                          LET marker == optionPatterns[f][i] IN
                          /\ Len(storyObjs[o].options[i].text) > Len(marker)
                          /\ SubSeq(storyObjs[o].options[i].text, 1,
                                    Len(marker)) = marker

\* C25: a pass of the parse loop that finds fewer than 16 bytes left at the
\* offset, or a packet whose declared length reaches past the end of the
\* buffer, stops the parsing: no panic, no body is handed on (none could lie
\* inside the buffer), and the loop is over.
C25_PartialAt(data, offset) ==
    \/ Len(data) < offset + headerLength
    \/ offset + Uint32(data, offset) > Len(data)

C25_PartialBufferStopsQuietly ==
    [][(/\ framePc = "loop"
        /\ frameOffset < Len(frameData)
        /\ C25_PartialAt(frameData, frameOffset)) =>
            /\ framePc' # "panicked"
            /\ frameBodies' = frameBodies
            /\ framePc' = "done" \/ frameOffset' >= Len(frameData)]_vars

\* C26: a pass of the parse loop that reads a packet length below 16 ends
\* handleMessage there: the offset stays, nothing more of the buffer is
\* handed to parseDanmaku.  And for every buffer the loop comes to an end.
C26_ShortPacketAbortsAndLoopEnds ==
    /\ [][(/\ framePc = "loop"
           /\ Len(frameData) >= frameOffset + headerLength
           /\ Uint32(frameData, frameOffset) < headerLength) =>
               /\ framePc' = "done"
               /\ UNCHANGED <<frameOffset, frameBodies>>]_vars
    /\ [][framePc = "done" => UNCHANGED <<frameOffset, frameBodies>>]_vars
    /\ (framePc = "loop") ~> (framePc # "loop")

\* handleMessage returned at a packet of declared length below 16 although
\* the buffer holds a whole further packet behind it.
C26_Witness ==
    /\ framePc = "done"
    /\ Len(frameData) >= frameOffset + 2 * headerLength
    /\ Uint32(frameData, frameOffset) < headerLength

\* C27: the read loop sends on danmakuChan only for an adapter that is
\* connected (Streaming) and whose channel Disconnect has not closed.
C27_SendsOnlyWhileStreaming ==
    [][\A a \in Adapters :
          ReaderSends(a) =>
              (adapterObjs[a].connected /\ ~adapterObjs[a].chanClosed)]_vars

\* C28: the hub's dropped counter equals the number of (broadcast, client)
\* pairs whose enqueue found the client's Send queue full.
C28_DroppedCountsFailedEnqueues ==
    DroppedCounter = Cardinality(bufferFullLog)

\* C29: once the write pump or the read pump of a client has returned on an
\* error, the client is taken out of the hub's set and stays out, however
\* its registration and its unregistration are interleaved.
C29_FailedClientIsRemoved ==
    \A c \in Clients :
        (readPc[c] = "exited" \/ writePc[c] = "exited")
            ~> [](c \notin hubClients)

\* C30: a worker that is done with the request it took has recorded one
\* result under the request's ID, the image when GenerateImage succeeded and
\* the error when it failed, and has sent one result on the request's
\* ResultCh.
C30_OneResultPerRequest ==
    [][\A w \in QueueWorkers :
          /\ (\E pushed \in BOOLEAN : WorkerGenerated(w, pushed)) =>
                 /\ workerTask[w] \in DOMAIN results'
                 /\ results'[workerTask[w]] = "image"
                 /\ resultsPushed'[workerTask[w]] =
                        resultsPushed[workerTask[w]] + 1
          /\ WorkerGenerateFails(w) =>
                 /\ workerTask[w] \in DOMAIN results'
                 /\ results'[workerTask[w]] = "error"
                 /\ resultsPushed'[workerTask[w]] =
                        resultsPushed[workerTask[w]] + 1]_vars

\* C31: the watcher of a start marks only that start Running: whenever a
\* waitForStartup goroutine moves the status from Starting to Running, the
\* child the manager holds is the one its own start spawned, so the watcher
\* of an earlier start never marks a later start Running (nor undoes a Stop
\* followed by a new start within the grace delay).
C31_WatcherMarksOnlyItsStart ==
    [][\A pid \in startupWaits :
           (/\ startupWaits' = startupWaits \ {pid}
            /\ mgrStatus = ComfyUIStatusStarting
            /\ mgrStatus' = ComfyUIStatusRunning) =>
               mgrProcess = pid]_vars

\* the call of c returns success and none of its stores failed
C32_Succeeds(c) ==
    /\ callPc[c] # "done"
    /\ callPc'[c] = "done"
    /\ callResult'[c].status = "ok"
    /\ ~callEffects'[c].storeFailed

\* C32: with a memory store that takes every point, an advance with a
\* non-empty action that succeeds has persisted exactly one memory, of type player_action and with the
\* action as its content, and a choose that succeeds has persisted exactly
\* one memory, of type decision: every memory such a call inserts is of that
\* kind, it inserts one, and it inserts no other.
C32_OneMemoryPerCall ==
    [][LET c == SoleCaller
           a == callArgs'[c]
       IN  /\ (a.op = "advance" /\ a.action # <<>>) =>
                /\ memories' # memories =>
                     memories' = memories (+)
                        SetToBag({[type |-> "player_action",
                                   storyID |-> a.storyID,
                                   content |-> a.action]})
                /\ C32_Succeeds(c) =>
                     /\ callEffects'[c].stored
                     /\ memories' # memories
           /\ a.op = "choose" =>
                /\ memories' # memories =>
                     /\ callPc[c] \in {"idle", "done"}
                     /\ \E m \in BagToSet(memories') :
                          /\ m.type = "decision"
                          /\ memories' = memories (+) SetToBag({m})
                /\ C32_Succeeds(c) => callEffects'[c].stored]_vars

\* C33: points are identified by their memory id: a store replaces a point
\* only when that point was stored under the same memory id, so every memory
\* id that was stored is retrievable afterwards, whatever was stored under
\* other ids since.
C33_PointsKeyedByMemoryID ==
    /\ [](storedIDs \subseteq Retrievable)
    /\ [][\A p \in DOMAIN qdrantPoints :
              qdrantPoints'[p] # qdrantPoints[p] =>
                  qdrantPoints'[p].id = qdrantPoints[p].id]_vars

\* C34: no frame is sent on a subscriber queue that has been closed: when
\* the handler tries to enqueue the welcome frame of a client, and when the
\* hub fans a broadcast out to the clients of its set, the queue sent on is
\* open (a send on a closed Go channel panics, with room in it or not).
C34_NoSendOnClosedQueue ==
    [][/\ \A c \in Clients :
              (handlerPc[c] = "registered" /\ handlerPc'[c] = "done") =>
                  ~sendClosed[c]
       /\ (hubBroadcast # <<>> /\ hubBroadcast' = Tail(hubBroadcast)) =>
              \A c \in hubClients : ~sendClosed[c]]_vars

\* a broadcast was fanned out after the queue of c had been closed: c got
\* the first broadcast, d got the second, and c, unregistered by then, was
\* neither sent the second nor logged as full
C34_Witness ==
    \E c, d \in Clients :
        /\ sendClosed[c]
        /\ c \notin hubClients
        /\ \E i \in DOMAIN written[c] :
               written[c][i].type = "danmaku" /\ written[c][i].data.seq = 1
        /\ \E i \in DOMAIN written[d] :
               written[d][i].type = "danmaku" /\ written[d][i].data.seq = 2
        /\ <<c, 2>> \notin bufferFullLog
        /\ \A i \in DOMAIN written[c] :
               ~(written[c][i].type = "danmaku" /\ written[c][i].data.seq = 2)
        /\ \A i \in DOMAIN clientSend[c] :
               ~(clientSend[c][i].type = "danmaku" /\ clientSend[c][i].data.seq = 2)

\* C35: after any sequence of Put, Get, Invalidate, Clear and CleanExpired
\* calls that have returned, the TotalEntries of GetStats is the number of
\* entries the cache holds.
C35_TotalEntriesCountsEntries ==
    cacheLast.returned =>
        cacheStats.totalEntries = Cardinality(DOMAIN cacheEntries)

\* C36: at most one child process runs at any time: a Start made while the
\* status is Starting or Running spawns no second process.
C36_AtMostOneChild ==
    Cardinality({pid \in DOMAIN children : children[pid] = "alive"}) <= 1

\* C37: a Start that returns the error of a failed pre-flight check has
\* spawned no process and leaves the status as it was before the call.
C37_FailedPreflightKeepsStatus ==
    [][(mgrStarts' = mgrStarts + 1 /\ mgrLast'.err = "not found") =>
          /\ children' = children
          /\ mgrProcess' = mgrProcess
          /\ mgrStatus' = mgrStatus]_vars

\* C38: the session a successful connect request started keeps its read
\* loop, its heartbeat and its forwarder running after ConnectLive has
\* returned, for as long as no disconnect has closed it and neither the
\* read nor the heartbeat write has failed; so what the adapter publishes
\* has a forwarder to hand it to the hub.
C38_SessionOutlivesRequest ==
    \A a \in Adapters :
        (/\ adapterObjs[a].reader # "none"
         /\ ~adapterObjs[a].chanClosed
         /\ ~adapterObjs[a].readError
         /\ ~adapterObjs[a].writeError) =>
            /\ adapterObjs[a].reader \in {"running", "handling"}
            /\ adapterObjs[a].heartbeat = "running"
            /\ adapterObjs[a].forwarder = "running"

\* C39: when CreateStory returns an error because generating the first
\* segment failed, the story id is not left behind: GetStoryState of the id
\* reports NotFound and GetActiveStories does not list it.
C39_FailedCreateLeavesNothing ==
    [][\A id \in StoryIDs :
           (/\ callPc[SoleCaller] # "done"
            /\ callPc'[SoleCaller] = "done"
            /\ callArgs'[SoleCaller].op = "create"
            /\ callArgs'[SoleCaller].storyID = id
            /\ callResult'[SoleCaller].status = "LLMFailure") =>
               /\ ~(GetStoryState(id).found)'
               /\ id \notin GetActiveStories']_vars

\* C40: an advance or a choose that has passed its state lookup never puts
\* a story back: a story that is absent from the state map when such a call
\* takes a step (EndStory has removed it) is absent from the state map and
\* from the active stories after the step, up to and including its return.
C40_EndedStoryStaysEnded ==
    [][\A c \in Callers, id \in StoryIDs :
           (/\ callArgs[c].op \in {"advance", "choose"}
            /\ callArgs[c].storyID = id
            /\ callPc[c] \in {"llm", "store"}
            /\ callPc'[c] # callPc[c]
            /\ id \notin DOMAIN storyState) =>
               /\ id \notin DOMAIN storyState'
               /\ id \notin GetActiveStories']_vars

\* an advance or a choose that found the story returned its response, as
\* the last call to return, with the story gone from the map: the end that
\* removed it returned while the call was under way
C40_Witness ==
    \E c \in Callers :
        /\ callPc[c] = "done"
        /\ callArgs[c].op \in {"advance", "choose"}
        /\ callResult[c].status = "ok"
        /\ callArgs[c].storyID \notin DOMAIN storyState
        /\ callArgs[c].storyID \notin GetActiveStories

====
